---- MODULE Spec2Model ----
(***************************************************************************)
(* Pixel Defender: the entity / collision / game-loop core of              *)
(* Project/modules (entity.py, bullet.py, heart.py, spaceship.py,          *)
(* game_logic.py), as a state machine.                                     *)
(*                                                                         *)
(* Coordinates.  The code mixes ints and floats: an alien's speed is 3,    *)
(* 1.5 or 0.75 pixels a frame and a bullet is spawned at                   *)
(* placeholder.x + width/2 - 2.5.  Every length of the model is therefore  *)
(* counted in quarter pixels (PX units to the pixel), which represents     *)
(* all these values exactly; a pygame.Rect field (placeholder) holds whole *)
(* pixels, the float assigned to it being truncated toward zero.           *)
(*                                                                         *)
(* Sprites.  The sprite files of the repository (raw/*.png) are taken to   *)
(* load, so that check_imagePath recentres x_pos / y_pos and creates the   *)
(* placeholder; bullets are built with 'N/A' and have none.                *)
(*                                                                         *)
(* Fields named last, depth, and the variables ev, spawn_hist, frame are   *)
(* history: they record what the code did and are read by no code path.    *)
(***************************************************************************)
EXTENDS Integers, Sequences, FiniteSets, TLC

VARIABLES
    player,          \* game_loop: player (Spaceship, with its Bullet)
    heart,           \* game_loop: heart (Heart)
    alien_list,      \* game_loop: alien_list (sequence of Spaceship)
    score,           \* game_loop: score
    goal,            \* game_loop: goal
    level,           \* game_loop: level
    running,         \* game_loop: running
    is_game_over,    \* game_loop: is_game_over
    game_over_text,  \* game_loop: game_over_text
    music,           \* background_song is playing
    cue_plays,       \* number of game_over_sound.play() calls of the session
    pc,              \* position of the process in game_loop / the menus
    idx,             \* position of the iterator of `for alien in alien_list`
    keys,            \* the pygame.key.get_pressed() snapshot of the frame
    frame,           \* history: number of Playing frames started
    ev,              \* history: what the last step did
    spawn_hist,      \* history: the lanes of the last enemies spawned
    probe,           \* inputs and result of a direct call of a pure function
    menu,            \* the locals of the menu that runs, if any
    files            \* the files: path -> existence, permissions and text

vars == <<player, heart, alien_list, score, goal, level, running, is_game_over,
          game_over_text, music, cue_plays, pc, idx, keys, frame, ev,
          spawn_hist, probe, menu, files>>

----------------------------------------------------------------------------
(* Units and screen                                                        *)

PX == 4

SCREEN_W == 700 * PX

SCREEN_H == 900 * PX

\* int(v) of a float v held in quarter pixels, as a pygame.Rect stores it.
Trunc(v) == IF v >= 0 THEN (v \div PX) * PX ELSE -(((-v) \div PX) * PX)

Max(a, b) == IF a >= b THEN a ELSE b

Min(a, b) == IF a <= b THEN a ELSE b

----------------------------------------------------------------------------
(* entity.py                                                               *)

\* Variant: x_pos stays the x that was passed in.
Entity_init_KeepX(width, height, x, y) ==
    LET y0 == IF y = -1 THEN -height ELSE y
    IN  [x_pos |-> x,
         y_pos |-> y0 - height \div 2,
         placeholder |-> [x |-> x - ((width \div PX) \div 2) * PX,
                          y |-> y0 - ((height \div PX) \div 2) * PX]]

\* Entity.__init__ followed by check_imagePath for a sprite that loads:
\* the rect is centred on (x_pos, y_pos), then x_pos / y_pos become the
\* upper-left corner.  y = -1 (not scaled) is the "just above the screen"
\* request.
Entity_init(width, height, x, y) ==
    LET y0 == IF y = -1 THEN -height ELSE y
    IN  [x_pos |-> x - width \div 2,
         y_pos |-> y0 - height \div 2,
         placeholder |-> [x |-> x - ((width \div PX) \div 2) * PX,
                          y |-> y0 - ((height \div PX) \div 2) * PX]]

----------------------------------------------------------------------------
(* bullet.py                                                               *)

\* Bullet(5, 20, 0, 0, 30, 'N/A', damage)
Bullet(damage) ==
    [width |-> 5 * PX, height |-> 20 * PX, x_pos |-> 0, y_pos |-> 0,
     speed |-> 30 * PX, damage |-> damage, is_fired |-> FALSE, last |-> "new"]

set_coordinates(b, x, y) ==
    [b EXCEPT !.x_pos = x, !.y_pos = y, !.is_fired = TRUE, !.last = "set"]

\* Variant: only the top bound ends the flight.
BulletOut_TopOnly(y, screen_h) == y <= 0

BulletOut(y, screen_h) == y <= 0 \/ y >= screen_h

Bullet_move(b, direction, screen_w, screen_h) ==
    LET y == b.y_pos + b.speed * direction
    IN  [b EXCEPT !.y_pos = y,
                  !.is_fired = IF BulletOut(y, screen_h) THEN FALSE ELSE @,
                  !.last = IF BulletOut(y, screen_h) THEN "out" ELSE "in"]

----------------------------------------------------------------------------
(* heart.py                                                                *)

\* get_heart: Heart(80, 80, 350, -1, 1, 'raw/heart.png', 30)
get_heart ==
    LET e == Entity_init(80 * PX, 80 * PX, 350 * PX, -1)
    IN  [width |-> 80 * PX, height |-> 80 * PX, x_pos |-> e.x_pos,
         y_pos |-> e.y_pos, placeholder |-> e.placeholder, speed |-> 1 * PX,
         restore_amount |-> 30, is_claimed |-> FALSE]

\* Variant: the pickup is not claimed by leaving the screen.
Heart_move_NoExpire(h, direction, screen_w, screen_h) ==
    LET y == h.y_pos + h.speed * direction
    IN  [h EXCEPT !.y_pos = y, !.placeholder.y = Trunc(y)]

Heart_move(h, direction, screen_w, screen_h) ==
    LET y  == h.y_pos + h.speed * direction
        py == Trunc(y)
    IN  [h EXCEPT !.y_pos = y,
                  !.placeholder.y = py,
                  !.is_claimed = IF py >= screen_h + h.height THEN TRUE ELSE @]

----------------------------------------------------------------------------
(* spaceship.py                                                            *)

Spaceship(width, height, x, y, speed, health, bullet, shoot_delay, is_player) ==
    LET e == Entity_init(width, height, x, y)
    IN  [width |-> width, height |-> height, x_pos |-> e.x_pos,
         y_pos |-> e.y_pos, placeholder |-> e.placeholder, speed |-> speed,
         health |-> health, is_killed |-> FALSE, bullet |-> bullet,
         shoot_delay |-> shoot_delay, is_player |-> is_player,
         shoot_timer |-> 0]

Spaceship_shoot(s) ==
    LET y == IF s.is_player THEN s.placeholder.y
                            ELSE s.placeholder.y + s.height
    IN  [s EXCEPT !.bullet =
            set_coordinates(s.bullet,
                s.placeholder.x + s.width \div 2 - s.bullet.width \div 2, y)]

\* Variant: the delay alone decides.
CanShoot_AnyHeight(s, timer) == timer >= s.shoot_delay

\* The alien can shoot once its half has appeared on the screen.
CanShoot(s, timer) ==
    timer >= s.shoot_delay /\ s.y_pos + s.height \div 2 >= 0

\* Variant: the timer is not reset by a shot.
alien_shoot_NoReset(s) ==
    LET timer == s.shoot_timer + 1
    IN  IF CanShoot(s, timer)
        THEN [Spaceship_shoot(s) EXCEPT !.shoot_timer = timer]
        ELSE [s EXCEPT !.shoot_timer = timer]

alien_shoot(s) ==
    LET timer == s.shoot_timer + 1
    IN  IF CanShoot(s, timer)
        THEN [Spaceship_shoot(s) EXCEPT !.shoot_timer = 0]
        ELSE [s EXCEPT !.shoot_timer = timer]

\* Variant: the danger line has to be passed, not touched.
ReachedPlayer_Strict(s, screen_h) ==
    s.placeholder.y + s.height > screen_h - 120 * PX

ReachedPlayer(s, screen_h) ==
    s.placeholder.y + s.height >= screen_h - 120 * PX

\* Variant: the player is not held at the edges of the screen.
Spaceship_move_NoClamp(s, direction, screen_w, screen_h) ==
    IF s.is_player
    THEN LET x == s.x_pos + s.speed * direction
         IN  [s EXCEPT !.x_pos = x, !.placeholder.x = Trunc(x)]
    ELSE LET y == s.y_pos + s.speed * direction
             m == [s EXCEPT !.y_pos = y, !.placeholder.y = Trunc(y)]
         IN  [m EXCEPT !.is_killed =
                  IF ReachedPlayer(m, screen_h) THEN TRUE ELSE @]

Spaceship_move(s, direction, screen_w, screen_h) ==
    IF s.is_player
    THEN LET x  == s.x_pos + s.speed * direction
             cx == IF x <= 0 THEN 0
                   ELSE IF x + s.width >= screen_w THEN screen_w - s.width
                   ELSE x
         IN  [s EXCEPT !.x_pos = cx, !.placeholder.x = Trunc(cx)]
    ELSE LET y == s.y_pos + s.speed * direction
             m == [s EXCEPT !.y_pos = y, !.placeholder.y = Trunc(y)]
         IN  [m EXCEPT !.is_killed =
                  IF ReachedPlayer(m, screen_h) THEN TRUE ELSE @]

----------------------------------------------------------------------------
(* game_logic.py: helpers                                                  *)

\* Variant: the open rectangle.
check_collisions_Strict(bullet, x_pos, y_pos, width, height) ==
    /\ bullet.is_fired
    /\ y_pos < bullet.y_pos /\ bullet.y_pos < y_pos + height
    /\ x_pos < bullet.x_pos /\ bullet.x_pos < x_pos + width

check_collisions(bullet, x_pos, y_pos, width, height) ==
    /\ bullet.is_fired
    /\ y_pos <= bullet.y_pos /\ bullet.y_pos <= y_pos + height
    /\ x_pos <= bullet.x_pos /\ bullet.x_pos <= x_pos + width

move_bullets(bullet, direction) ==
    IF bullet.is_fired THEN Bullet_move(bullet, direction, SCREEN_W, SCREEN_H)
                       ELSE bullet

\* Variant: the bullet is moved away and stays fired.
reset_bullets_KeepFired(bullet) ==
    [bullet EXCEPT !.x_pos = SCREEN_W, !.y_pos = SCREEN_H, !.last = "reset"]

reset_bullets(bullet) ==
    [bullet EXCEPT !.is_fired = FALSE, !.x_pos = SCREEN_W, !.y_pos = SCREEN_H,
                   !.last = "reset"]

\* random.randint(a, b): the draw r in 0..RandGrain picks a value of a..b,
\* both ends included (r = 0 gives a, r = RandGrain gives b).
RandGrain == 1

\* Variant: the upper end is passed by one.
RandInt_Past(a, b, r) == a + ((b - a + 1) * r) \div RandGrain

RandInt(a, b, r) == a + ((b - a) * r) \div RandGrain

\* Variant: the previous location is not removed.
OtherLocations_Keep(previous_location) == <<1, 2, 3>>

\* locations = [1, 2, 3]; locations.remove(previous_location)
OtherLocations(previous_location) ==
    SelectSeq(<<1, 2, 3>>, LAMBDA l : l # previous_location)

\* rnd.r is the draw of random.randint, rnd.choice the index random.choice
\* picks.  depth counts the recursive calls made.
RECURSIVE get_rand_spawn(_, _, _)
get_rand_spawn(location_list, rand_num, rnd) ==
    IF location_list.previous_location = 0
    THEN [location_list EXCEPT
            !.previous_location = rand_num,
            !.spawn_location =
                IF rand_num = 1 THEN RandInt(75, 175, rnd.r) * PX
                ELSE IF rand_num = 2 THEN RandInt(325, 375, rnd.r) * PX
                ELSE IF rand_num = 3 THEN RandInt(525, 625, rnd.r) * PX
                ELSE @]
    ELSE IF location_list.previous_location >= 1
            /\ location_list.previous_location <= 3
    THEN LET locations == OtherLocations(location_list.previous_location)
         IN  get_rand_spawn(
                 [location_list EXCEPT !.previous_location = 0,
                                       !.depth = @ + 1],
                 locations[rnd.choice], rnd)
    ELSE location_list

\* The three alien types of load_aliens.
NewAlien(alien_type, spawn_location) ==
    IF alien_type = 1
    THEN Spaceship(100 * PX, 100 * PX, spawn_location, -1, 3 * PX, 1,
                   Bullet(10), 50, FALSE)
    ELSE IF alien_type = 2
    THEN Spaceship(120 * PX, 120 * PX, spawn_location, -1, (3 * PX) \div 2, 1,
                   Bullet(25), 75, FALSE)
    ELSE Spaceship(150 * PX, 150 * PX, spawn_location, -1, (3 * PX) \div 4, 1,
                   Bullet(50), 100, FALSE)

\* rand_location = {"spawn_location": 0, "previous_location": 0}
NewRandLocation == [spawn_location |-> 0, previous_location |-> 0, depth |-> 0]

\* Variant: a fresh rand_location for each alien.
load_aliens_Fresh(list, rnd) ==
    LET l1 == get_rand_spawn(NewRandLocation, rnd.n1,
                             [r |-> rnd.r1, choice |-> 1])
        l2 == get_rand_spawn(NewRandLocation, rnd.n2,
                             [r |-> rnd.r2, choice |-> rnd.c2])
    IN  list \o <<NewAlien(rnd.t1, l1.spawn_location),
                  NewAlien(rnd.t2, l2.spawn_location)>>

\* Variant: a third alien is appended.
load_aliens_Three(list, rnd) ==
    LET l1 == get_rand_spawn(NewRandLocation, rnd.n1,
                             [r |-> rnd.r1, choice |-> 1])
        l2 == get_rand_spawn([l1 EXCEPT !.depth = 0], rnd.n2,
                             [r |-> rnd.r2, choice |-> rnd.c2])
    IN  list \o <<NewAlien(rnd.t1, l1.spawn_location),
                  NewAlien(rnd.t1, l1.spawn_location),
                  NewAlien(rnd.t2, l2.spawn_location)>>

\* load_aliens: the two aliens it appends, from the draws
\* rnd = [t1, n1, r1, t2, n2, c2, r2] (type, rand_num, randint draw of each
\* alien; c2 is the random.choice of the second get_rand_spawn).
load_aliens(list, rnd) ==
    LET l1 == get_rand_spawn(NewRandLocation, rnd.n1,
                             [r |-> rnd.r1, choice |-> 1])
        l2 == get_rand_spawn([l1 EXCEPT !.depth = 0], rnd.n2,
                             [r |-> rnd.r2, choice |-> rnd.c2])
    IN  list \o <<NewAlien(rnd.t1, l1.spawn_location),
                        NewAlien(rnd.t2, l2.spawn_location)>>

----------------------------------------------------------------------------
(* Text.  A Python str is modelled by the sequence of its characters,      *)
(* each a one-character string.                                            *)

Digits == <<"0", "1", "2", "3", "4", "5", "6", "7", "8", "9">>

UpperCase ==
    <<"A", "B", "C", "D", "E", "F", "G", "H", "I", "J", "K", "L", "M",
      "N", "O", "P", "Q", "R", "S", "T", "U", "V", "W", "X", "Y", "Z">>

LowerCase ==
    <<"a", "b", "c", "d", "e", "f", "g", "h", "i", "j", "k", "l", "m",
      "n", "o", "p", "q", "r", "s", "t", "u", "v", "w", "x", "y", "z">>

\* str.lower()
Lower(s) ==
    [i \in 1..Len(s) |->
        IF \E j \in 1..26 : UpperCase[j] = s[i]
        THEN LowerCase[CHOOSE j \in 1..26 : UpperCase[j] = s[i]]
        ELSE s[i]]

\* str.endswith(suffix)
EndsWith(s, suffix) ==
    /\ Len(s) >= Len(suffix)
    /\ SubSeq(s, Len(s) - Len(suffix) + 1, Len(s)) = suffix

StartsWith(s, prefix) ==
    Len(s) >= Len(prefix) /\ SubSeq(s, 1, Len(prefix)) = prefix

IsSpace(c) == c \in {" ", "\n", "\t", "\r"}

RECURSIVE LStrip(_)
LStrip(s) == IF s # <<>> /\ IsSpace(Head(s)) THEN LStrip(Tail(s)) ELSE s

RECURSIVE RStrip(_)
RStrip(s) ==
    IF s # <<>> /\ IsSpace(s[Len(s)]) THEN RStrip(SubSeq(s, 1, Len(s) - 1))
    ELSE s

\* str.strip()
Strip(s) == RStrip(LStrip(s))

\* str.split(sep), sep not empty: the parts between the occurrences of sep,
\* found from left to right; cur is the part being read.
RECURSIVE SplitFrom(_, _, _)
SplitFrom(s, sep, cur) ==
    IF s = <<>> THEN <<cur>>
    ELSE IF StartsWith(s, sep)
    THEN <<cur>> \o SplitFrom(SubSeq(s, Len(sep) + 1, Len(s)), sep, <<>>)
    ELSE SplitFrom(Tail(s), sep, Append(cur, Head(s)))

Split(s, sep) == SplitFrom(s, sep, <<>>)

\* file.readlines(): the lines, each with its line end; cur is the line
\* being read.
RECURSIVE LinesFrom(_, _)
LinesFrom(text, cur) ==
    IF text = <<>> THEN (IF cur = <<>> THEN <<>> ELSE <<cur>>)
    ELSE IF Head(text) = "\n"
    THEN <<Append(cur, "\n")>> \o LinesFrom(Tail(text), <<>>)
    ELSE LinesFrom(Tail(text), Append(cur, Head(text)))

readlines(text) == LinesFrom(text, <<>>)

\* str(n) of an int, as an f-string formats it.
RECURSIVE StrOf(_)
StrOf(n) ==
    IF n < 0 THEN <<"-">> \o StrOf(-n)
    ELSE IF n < 10 THEN <<Digits[n + 1]>>
    ELSE StrOf(n \div 10) \o <<Digits[(n % 10) + 1]>>

IsDigit(c) == \E i \in 1..10 : Digits[i] = c

RECURSIVE DigitsValue(_)
DigitsValue(ds) ==
    IF ds = <<>> THEN 0
    ELSE DigitsValue(SubSeq(ds, 1, Len(ds) - 1)) * 10
         + (CHOOSE i \in 1..10 : Digits[i] = ds[Len(ds)]) - 1

\* int(s): surrounding white space and one sign are accepted; ok = FALSE
\* stands for the ValueError.
IntOf(s) ==
    LET b      == Strip(s)
        signed == b # <<>> /\ Head(b) \in {"+", "-"}
        ds     == IF signed THEN Tail(b) ELSE b
        ok     == ds # <<>> /\ \A i \in 1..Len(ds) : IsDigit(ds[i])
        v      == IF ok THEN DigitsValue(ds) ELSE 0
    IN  [ok |-> ok, value |-> IF signed /\ Head(b) = "-" THEN -v ELSE v]

----------------------------------------------------------------------------
(* game_logic.py: the score files.  A file system fs maps a path to        *)
(* [exists, readable, writable, text]: open(path, 'r') succeeds on a file  *)
(* that exists and is readable, open(path, 'a') on one that is writable    *)
(* (it is created when it does not exist).                                 *)

DEFAULT_FILE ==
    <<"s", "c", "o", "r", "e", "s", "/", "s", "c", "o", "r", "e", "-",
      "l", "i", "s", "t", ".", "t", "x", "t">>

NoFile ==
    [exists |-> FALSE, readable |-> FALSE, writable |-> FALSE, text |-> <<>>]

FileAt(fs, path) == IF path \in DOMAIN fs THEN fs[path] ELSE NoFile

\* Variant: the existence of the file is not asked for.
check_file_path_AnyTxt(fs, path) ==
    \/ path = DEFAULT_FILE
    \/ EndsWith(Lower(path), <<".", "t", "x", "t">>)

check_file_path(fs, path) ==
    \/ path = DEFAULT_FILE
    \/ /\ EndsWith(Lower(path), <<".", "t", "x", "t">>)
       /\ FileAt(fs, path).exists

\* f"{name} - Score: {score}\n"
RecordLine(name, sc) ==
    name \o <<" ", "-", " ", "S", "c", "o", "r", "e", ":", " ">>
         \o StrOf(sc) \o <<"\n">>

\* write_scores: the flag it returns and the files it leaves.
write_scores(fs, name, path, sc) ==
    IF FileAt(fs, path).writable
    THEN [res |-> TRUE,
          files |-> [fs EXCEPT ![path].exists = TRUE,
                               ![path].text = @ \o RecordLine(name, sc)]]
    ELSE [res |-> FALSE, files |-> fs]

\* Lines 316-322: the lines left to read; a score part that is not an
\* integer raises, which ends the loop with res = False and the list as it
\* is.
RECURSIVE ReadLines(_, _)
ReadLines(lines, score_list) ==
    IF lines = <<>> THEN [res |-> TRUE, score_list |-> score_list]
    ELSE LET line  == Strip(Head(lines))
             parts == Split(line, <<":", " ">>)
         IN  IF Len(parts) = 2
             THEN IF IntOf(parts[2]).ok
                  THEN ReadLines(Tail(lines),
                           Append(score_list,
                                  [text |-> line,
                                   score |-> IntOf(parts[2]).value]))
                  ELSE [res |-> FALSE, score_list |-> score_list]
             ELSE ReadLines(Tail(lines), score_list)

\* read_scores: the flag it returns and the list it leaves.
read_scores(fs, score_list, path) ==
    IF FileAt(fs, path).exists /\ FileAt(fs, path).readable
    THEN ReadLines(readlines(FileAt(fs, path).text), score_list)
    ELSE [res |-> FALSE, score_list |-> score_list]

----------------------------------------------------------------------------
(* game_logic.py: game_loop, on the record s of its local variables        *)

\* History: the values a step starts from and what it did.
EvStart(step, health, sc, lv, g) ==
    [step |-> step, health0 |-> health, score0 |-> sc,
     level0 |-> lv, goal0 |-> g, advanced |-> FALSE, bottom |-> 0,
     reach |-> FALSE, kill |-> FALSE, hit |-> FALSE, dmg |-> 0,
     brk |-> FALSE, collect |-> FALSE, expire |-> FALSE, replaced |-> FALSE,
     spawned |-> FALSE]

\* game_loop, lines 810-835: the locals of a session that starts.
NewSession ==
    [player |-> Spaceship(130 * PX, 130 * PX, 350 * PX, 780 * PX, 10 * PX,
                          100, Bullet(1), 0, TRUE),
     heart |-> get_heart,
     alien_list |-> <<>>,
     score |-> 0,
     goal |-> 10,
     level |-> 1,
     running |-> TRUE,
     is_game_over |-> FALSE,
     game_over_text |-> "YOU DIED",
     music |-> TRUE,
     cue_plays |-> 0,
     spawn_hist |-> <<>>,
     ev |-> EvStart("new", 100, 0, 1, 10)]

Ev0(s, step) == EvStart(step, s.player.health, s.score, s.level, s.goal)

NoKeys == [left |-> FALSE, right |-> FALSE, p |-> FALSE, space |-> FALSE]

\* History: the lane whose sub-range holds the spawn x (0: none).
LaneOf(x) ==
    IF 75 * PX <= x /\ x <= 175 * PX THEN 1
    ELSE IF 325 * PX <= x /\ x <= 375 * PX THEN 2
    ELSE IF 525 * PX <= x /\ x <= 625 * PX THEN 3
    ELSE 0

SpawnX(alien) == alien.x_pos + alien.width \div 2

\* History: the last three spawns, oldest first.
Remember(hist, a1, a2) ==
    LET h == hist \o <<[lane |-> LaneOf(SpawnX(a1)), first |-> TRUE],
                       [lane |-> LaneOf(SpawnX(a2)), first |-> FALSE]>>
    IN  SubSeq(h, Len(h) - Min(Len(h), 3) + 1, Len(h))

\* Lines 856-860: the left / right keys.
Controls(s, k) ==
    LET p1 == IF k.left THEN Spaceship_move(s.player, -1, SCREEN_W, SCREEN_H)
                        ELSE s.player
        p2 == IF k.right THEN Spaceship_move(p1, 1, SCREEN_W, SCREEN_H)
                         ELSE p1
    IN  [s EXCEPT !.player = p2]

\* Variant: the spawner also runs with level enemies in the list.
NeedsAliens_AtLevel(s) == Len(s.alien_list) <= s.level

\* Line 869.
NeedsAliens(s) == Len(s.alien_list) < s.level

\* Variant: SPACE fires whether the bullet is in flight or not.
AfterPause_AlwaysShoot(s, k, rnd) ==
    LET p1 == IF k.space THEN Spaceship_shoot(s.player) ELSE s.player
        al == IF NeedsAliens(s) THEN load_aliens(s.alien_list, rnd)
                                ELSE s.alien_list
        sh == IF NeedsAliens(s)
              THEN Remember(s.spawn_hist, al[Len(al) - 1], al[Len(al)])
              ELSE s.spawn_hist
    IN  [s EXCEPT !.player = [p1 EXCEPT !.bullet = move_bullets(@, -1)],
                  !.alien_list = al,
                  !.spawn_hist = sh,
                  !.ev = [Ev0(s, "top") EXCEPT !.spawned = NeedsAliens(s)]]

\* Lines 865-874: the shot of the player, the spawner, the player's bullet.
AfterPause(s, k, rnd) ==
    LET p1 == IF k.space /\ ~s.player.bullet.is_fired
              THEN Spaceship_shoot(s.player) ELSE s.player
        al == IF NeedsAliens(s) THEN load_aliens(s.alien_list, rnd)
                                ELSE s.alien_list
        sh == IF NeedsAliens(s)
              THEN Remember(s.spawn_hist, al[Len(al) - 1], al[Len(al)])
              ELSE s.spawn_hist
    IN  [s EXCEPT !.player = [p1 EXCEPT !.bullet = move_bullets(@, -1)],
                  !.alien_list = al,
                  !.spawn_hist = sh,
                  !.ev = [Ev0(s, "top") EXCEPT !.spawned = NeedsAliens(s)]]

\* Variant: no floor at 0.
TakeDamage_NoFloor(health, damage) == health - damage

\* Lines 925-929: the damage of an alien's bullet.
TakeDamage(health, damage) ==
    IF health - damage < 0 THEN 0 ELSE health - damage

\* Variant: the level goes up one kill late.
LevelAfter_Late(new_score, old_level) ==
    IF new_score % 25 = 1 THEN old_level + 1 ELSE old_level

\* Lines 909-912.
LevelAfter(new_score, old_level) ==
    IF new_score % 25 = 0 THEN old_level + 1 ELSE old_level

\* alien_list.remove(alien), alien being the element at index i.
RemoveAt(list, i) == SubSeq(list, 1, i - 1) \o SubSeq(list, i + 1, Len(list))

\* Variant: the alien that reaches the danger line is taken out of the
\* list, and the game goes on.
AliensReachedYou_Gone(s, i, a, e) ==
    [s EXCEPT !.alien_list = RemoveAt(@, i),
              !.ev = [e EXCEPT !.advanced = TRUE,
                               !.bottom = a.y_pos + a.height,
                               !.brk = TRUE]]

\* Lines 882-893: the alien has reached the player.
AliensReachedYou(s, i, a, e) ==
    [s EXCEPT !.alien_list[i] = a,
              !.is_game_over = TRUE,
              !.game_over_text = "ALIENS REACHED YOU",
              !.player.health = 0,
              !.cue_plays = @ + 1,
              !.music = FALSE,
              !.ev = [e EXCEPT !.advanced = TRUE,
                               !.bottom = a.y_pos + a.height,
                               !.reach = TRUE, !.brk = TRUE]]

\* Variant: health 0 does not end the game.
YouDied_Strict(s) ==
    IF s.player.health < 0
    THEN [s EXCEPT !.is_game_over = TRUE, !.cue_plays = @ + 1,
                   !.music = FALSE, !.ev.brk = TRUE]
    ELSE s

\* Variant: the break is missing.
YouDied_NoBreak(s) ==
    IF s.player.health <= 0
    THEN [s EXCEPT !.is_game_over = TRUE, !.cue_plays = @ + 1,
                   !.music = FALSE]
    ELSE s

\* Lines 944-949: the check of the player's health that ends an iteration.
YouDied(s) ==
    IF s.player.health <= 0
    THEN [s EXCEPT !.is_game_over = TRUE, !.cue_plays = @ + 1,
                   !.music = FALSE, !.ev.brk = TRUE]
    ELSE s

\* Variant: a killed alien is removed before its bullet is checked.
AlienFight_KillFirst(s, i, a1, e) ==
    LET a2   == IF ~a1.bullet.is_fired THEN alien_shoot(a1) ELSE a1
        a3   == [a2 EXCEPT !.bullet = move_bullets(@, 1)]
        pl   == s.player
        kill == check_collisions(pl.bullet, a3.x_pos, a3.y_pos,
                                 a3.width, a3.height)
        a4   == IF kill THEN [a3 EXCEPT !.is_killed = TRUE] ELSE a3
        sc   == IF kill THEN s.score + 1 ELSE s.score
        lv   == IF kill THEN LevelAfter(sc, s.level) ELSE s.level
        hit  == ~kill /\ check_collisions(a4.bullet, pl.x_pos, pl.y_pos,
                                           pl.width, pl.height)
        hp   == IF hit THEN TakeDamage(pl.health, a4.bullet.damage)
                       ELSE pl.health
        a5   == IF hit THEN [a4 EXCEPT !.bullet = reset_bullets(@)] ELSE a4
    IN  [s EXCEPT
           !.player = [pl EXCEPT !.health = hp,
                                 !.bullet = IF kill THEN reset_bullets(@)
                                                    ELSE @],
           !.score = sc,
           !.level = lv,
           !.alien_list = IF a5.is_killed THEN RemoveAt(@, i)
                                          ELSE [@ EXCEPT ![i] = a5],
           !.ev = [e EXCEPT !.advanced = TRUE,
                            !.bottom = a1.y_pos + a1.height,
                            !.kill = kill, !.hit = hit,
                            !.dmg = IF hit THEN a4.bullet.damage ELSE 0]]

\* Lines 895-942: an alien that has moved and has not reached the player.
AlienFight(s, i, a1, e) ==
    LET a2   == IF ~a1.bullet.is_fired THEN alien_shoot(a1) ELSE a1
        a3   == [a2 EXCEPT !.bullet = move_bullets(@, 1)]
        pl   == s.player
        kill == check_collisions(pl.bullet, a3.x_pos, a3.y_pos,
                                 a3.width, a3.height)
        a4   == IF kill THEN [a3 EXCEPT !.is_killed = TRUE] ELSE a3
        sc   == IF kill THEN s.score + 1 ELSE s.score
        lv   == IF kill THEN LevelAfter(sc, s.level) ELSE s.level
        hit  == check_collisions(a4.bullet, pl.x_pos, pl.y_pos,
                                 pl.width, pl.height)
        hp   == IF hit THEN TakeDamage(pl.health, a4.bullet.damage)
                       ELSE pl.health
        a5   == IF hit THEN [a4 EXCEPT !.bullet = reset_bullets(@)] ELSE a4
    IN  [s EXCEPT
           !.player = [pl EXCEPT !.health = hp,
                                 !.bullet = IF kill THEN reset_bullets(@)
                                                    ELSE @],
           !.score = sc,
           !.level = lv,
           !.alien_list = IF a5.is_killed THEN RemoveAt(@, i)
                                          ELSE [@ EXCEPT ![i] = a5],
           !.ev = [e EXCEPT !.advanced = TRUE,
                            !.bottom = a1.y_pos + a1.height,
                            !.kill = kill, !.hit = hit,
                            !.dmg = IF hit THEN a4.bullet.damage ELSE 0]]

\* Lines 878-949: one iteration of `for alien in alien_list`, for the alien
\* at index i; ev.brk tells that it ended in a break.
AlienBody(r, i) ==
    LET e  == Ev0(r, "alien")
        s  == [r EXCEPT !.ev = e]
        a0 == s.alien_list[i]
        a1 == Spaceship_move(a0, 1, SCREEN_W, SCREEN_H)
    IN  IF a0.is_killed THEN s
        ELSE IF a1.is_killed THEN AliensReachedYou(s, i, a1, e)
        ELSE YouDied(AlienFight(s, i, a1, e))

\* The whole loop, from the iterator position i (elements consumed).
RECURSIVE AlienLoop(_, _)
AlienLoop(s, i) ==
    IF i >= Len(s.alien_list) THEN s
    ELSE LET n == AlienBody(s, i + 1)
         IN  IF n.ev.brk THEN n ELSE AlienLoop(n, i + 1)

\* Lines 962-968: the pickup heals the player.
Heal(health, restore_amount) ==
    IF health + restore_amount > 100 THEN 100 ELSE health + restore_amount

\* Variant: the goal moves back.
NextGoal_Back(g) == g - 10

\* Variant: the goal moves by 1.
NextGoal_One(g) == g + 1

\* Line 964.
NextGoal(g) == g + 10

\* Variant: the pickup is handled in every frame.
HeartActive_Always(s) == TRUE

\* Line 952: the pickup is handled once the score has reached the goal.
HeartActive(s) == s.score >= s.goal

\* Lines 952-976: the health pickup.
HeartPart(r) ==
    LET e == Ev0(r, "heart")
        s == [r EXCEPT !.ev = e]
    IN  IF HeartActive(s)
        THEN IF ~s.heart.is_claimed
             THEN LET h1 == Heart_move(s.heart, 1, SCREEN_W, SCREEN_H)
                      got == check_collisions(s.player.bullet, h1.x_pos,
                                 h1.y_pos, h1.width, h1.height)
                  IN  IF got
                      THEN [s EXCEPT
                              !.heart = [h1 EXCEPT !.is_claimed = TRUE],
                              !.player.health = Heal(@, h1.restore_amount),
                              !.player.bullet = reset_bullets(@),
                              !.goal = NextGoal(@),
                              !.ev.collect = TRUE]
                      ELSE [s EXCEPT !.heart = h1,
                                     !.ev.expire = h1.is_claimed]
             ELSE [s EXCEPT !.heart = get_heart, !.ev.replaced = TRUE]
        ELSE s

\* One Playing frame, lines 855-976, without a pause.
Frame(s, k, rnd) ==
    HeartPart(AlienLoop(AfterPause(Controls(s, k), k, rnd), 0))

\* n frames in which no key is pressed; the frames stop at game over.
\* (The recursion halves n: n frames are n \div 2 frames, then the rest.)
RECURSIVE Idle(_, _, _)
Idle(s, rnd, n) ==
    IF n = 0 \/ s.is_game_over THEN s
    ELSE IF n = 1 THEN Frame(s, NoKeys, rnd)
    ELSE Idle(Idle(s, rnd, n \div 2), rnd, n - n \div 2)

----------------------------------------------------------------------------
(* input_field.py and game_logic.py: save_score_menu                       *)

\* An event of pygame.event.get(): on is the field a MOUSEBUTTONDOWN falls
\* in ("name", "path" or "none"), unicode the character of a KEYDOWN.
Event(type, on, unicode) == [type |-> type, on |-> on, unicode |-> unicode]

\* InputField.__init__
InputField == [is_active |-> FALSE, text |-> <<>>]

\* InputField.handle_event, for the field called id: the field it leaves
\* and what it returns (given = FALSE stands for None).
handle_event(field, id, event) ==
    IF event.type = "MOUSEBUTTONDOWN"
    THEN [field |-> [field EXCEPT !.is_active = (event.on = id)],
          given |-> field.is_active /\ event.on # id,
          text  |-> field.text]
    ELSE IF event.type = "KEYDOWN" /\ field.is_active
    THEN [field |-> [field EXCEPT !.text = Append(@, event.unicode)],
          given |-> FALSE, text |-> <<>>]
    ELSE [field |-> field, given |-> FALSE, text |-> <<>>]

PlayerName == <<"P", "l", "a", "y", "e", "r">>

\* save_score_menu, lines 523-539: its locals when it starts.  last,
\* rejected and asked are history: the outcome of the last frame's save,
\* whether a save of this menu has failed, and whether the last frame had
\* the s key down with no field active.
SaveScoreMenu(sc) ==
    [fn |-> "save_score_menu", score |-> sc, text |-> "Save (s)",
     name |-> PlayerName, path |-> DEFAULT_FILE, is_saved |-> FALSE,
     running |-> TRUE, name_field |-> InputField, path_field |-> InputField,
     last |-> "none", rejected |-> FALSE, asked |-> FALSE]

NoMenu == [fn |-> "none"]

\* Lines 541-549: the events of a frame, in order.
RECURSIVE SaveScoreEvents(_, _)
SaveScoreEvents(m, events) ==
    IF events = <<>> THEN m
    ELSE LET event == Head(events)
             n     == handle_event(m.name_field, "name", event)
             p     == handle_event(m.path_field, "path", event)
         IN  SaveScoreEvents(
                 [m EXCEPT !.running = @ /\ event.type # "QUIT",
                           !.name_field = n.field,
                           !.name = IF n.given THEN n.text ELSE @,
                           !.path_field = p.field,
                           !.path = IF p.given THEN p.text ELSE @],
                 Tail(events))

\* Variant: a save is tried whenever the s key is down.
SaveScoreIteration_Again(m0, fs, events, k) ==
    LET m1     == SaveScoreEvents(m0, events)
        m2     == [m1 EXCEPT
                     !.name = IF @ = <<>> THEN PlayerName ELSE @,
                     !.path = IF @ = <<>> THEN DEFAULT_FILE ELSE @]
        idle   == ~m2.name_field.is_active /\ ~m2.path_field.is_active
        try    == k.s /\ idle
        valid  == check_file_path(fs, m2.path)
        w      == write_scores(fs, m2.name, m2.path, m2.score)
        m3     == IF ~try THEN [m2 EXCEPT !.last = "none"]
                  ELSE IF ~valid
                  THEN [m2 EXCEPT !.text = "Invalid path!",
                                  !.last = "invalid", !.rejected = TRUE]
                  ELSE IF ~w.res
                  THEN [m2 EXCEPT !.text = "Score NOT saved!",
                                  !.last = "failed", !.rejected = TRUE]
                  ELSE [m2 EXCEPT !.text = "Score saved!",
                                  !.is_saved = TRUE, !.last = "saved"]
    IN  [menu  |-> [m3 EXCEPT !.asked = k.s /\ idle],
         files |-> IF try /\ valid THEN w.files ELSE fs,
         out   |-> IF k.b /\ idle THEN "back"
                   ELSE IF m3.running THEN "stay" ELSE "quit"]

\* Lines 541-601: one iteration of the loop of save_score_menu, on the
\* events and the keys (s, b) of the frame: the locals and the files it
\* leaves, and how it ends ("stay", "back": it returns, "quit").
SaveScoreIteration(m0, fs, events, k) ==
    LET m1     == SaveScoreEvents(m0, events)
        m2     == [m1 EXCEPT
                     !.name = IF @ = <<>> THEN PlayerName ELSE @,
                     !.path = IF @ = <<>> THEN DEFAULT_FILE ELSE @]
        idle   == ~m2.name_field.is_active /\ ~m2.path_field.is_active
        try    == k.s /\ ~m2.is_saved /\ idle
        valid  == check_file_path(fs, m2.path)
        w      == write_scores(fs, m2.name, m2.path, m2.score)
        m3     == IF ~try THEN [m2 EXCEPT !.last = "none"]
                  ELSE IF ~valid
                  THEN [m2 EXCEPT !.text = "Invalid path!",
                                  !.last = "invalid", !.rejected = TRUE]
                  ELSE IF ~w.res
                  THEN [m2 EXCEPT !.text = "Score NOT saved!",
                                  !.last = "failed", !.rejected = TRUE]
                  ELSE [m2 EXCEPT !.text = "Score saved!",
                                  !.is_saved = TRUE, !.last = "saved"]
    IN  [menu  |-> [m3 EXCEPT !.asked = k.s /\ idle],
         files |-> IF try /\ valid THEN w.files ELSE fs,
         out   |-> IF k.b /\ idle THEN "back"
                   ELSE IF m3.running THEN "stay" ELSE "quit"]

----------------------------------------------------------------------------
(* The state machine                                                       *)

Locals ==
    [player |-> player, heart |-> heart, alien_list |-> alien_list,
     score |-> score, goal |-> goal, level |-> level, running |-> running,
     is_game_over |-> is_game_over, game_over_text |-> game_over_text,
     music |-> music, cue_plays |-> cue_plays, spawn_hist |-> spawn_hist,
     ev |-> ev]

Holds(s) ==
    /\ player = s.player
    /\ heart = s.heart
    /\ alien_list = s.alien_list
    /\ score = s.score
    /\ goal = s.goal
    /\ level = s.level
    /\ running = s.running
    /\ is_game_over = s.is_game_over
    /\ game_over_text = s.game_over_text
    /\ music = s.music
    /\ cue_plays = s.cue_plays
    /\ spawn_hist = s.spawn_hist
    /\ ev = s.ev

Becomes(s) ==
    /\ player' = s.player
    /\ heart' = s.heart
    /\ alien_list' = s.alien_list
    /\ score' = s.score
    /\ goal' = s.goal
    /\ level' = s.level
    /\ running' = s.running
    /\ is_game_over' = s.is_game_over
    /\ game_over_text' = s.game_over_text
    /\ music' = s.music
    /\ cue_plays' = s.cue_plays
    /\ spawn_hist' = s.spawn_hist
    /\ ev' = s.ev

\* Bounds of the exploration.
MaxFrames == 3

\* The key snapshots tried: each key alone, LEFT and RIGHT together (the
\* player moves left, then right), and SPACE held while P is pressed.
KeySets ==
    { NoKeys,
      [NoKeys EXCEPT !.left = TRUE],
      [NoKeys EXCEPT !.right = TRUE],
      [NoKeys EXCEPT !.space = TRUE],
      [NoKeys EXCEPT !.left = TRUE, !.right = TRUE],
      [NoKeys EXCEPT !.p = TRUE],
      [NoKeys EXCEPT !.p = TRUE, !.space = TRUE] }

Draws ==
    [t1 : 1..3, n1 : 1..3, r1 : 0..RandGrain,
     t2 : 1..3, n2 : 1..3, c2 : 1..2, r2 : 0..RandGrain]

NoDraw == [t1 |-> 1, n1 |-> 1, r1 |-> 0, t2 |-> 1, n2 |-> 1, c2 |-> 1, r2 |-> 0]

\* The draws a frame makes: those of load_aliens when the spawner runs.
DrawsOf(s) == IF NeedsAliens(s) THEN Draws ELSE {NoDraw}

NoProbe == [fn |-> "none"]

\* Where the loop over the aliens goes after i elements.
AfterAliens(s, i) ==
    IF s.ev.brk \/ i >= Len(s.alien_list) THEN "heart" ELSE "aliens"

\* Lines 837-874 of a Playing frame in which P is not pressed.
PlayFrame ==
    /\ pc = "top" /\ ~is_game_over /\ frame < MaxFrames
    /\ \E k \in KeySets, quit \in BOOLEAN :
         /\ ~k.p
         /\ \E rnd \in DrawsOf(Locals) :
              LET s == AfterPause(Controls(Locals, k), k, rnd)
              IN  /\ Becomes([s EXCEPT !.running = @ /\ ~quit])
                  /\ pc' = IF Len(s.alien_list) = 0 THEN "heart" ELSE "aliens"
    /\ idx' = 0
    /\ keys' = NoKeys
    /\ frame' = frame + 1
    /\ UNCHANGED <<probe, menu, files>>

\* Lines 837-863: P is pressed, the music stops and pause_menu runs.
PauseFrame ==
    /\ pc = "top" /\ ~is_game_over /\ frame < MaxFrames
    /\ \E k \in KeySets, quit \in BOOLEAN :
         /\ k.p
         /\ Becomes([Controls(Locals, k) EXCEPT
                       !.running = @ /\ ~quit, !.music = FALSE,
                       !.ev = Ev0(Locals, "pause")])
         /\ keys' = k
    /\ pc' = "paused"
    /\ idx' = 0
    /\ frame' = frame + 1
    /\ UNCHANGED <<probe, menu, files>>

\* Variant: the enemies' fire timers run while the menu is shown.
PauseIdle_Ticks ==
    /\ pc = "paused"
    /\ pc' = "paused"
    /\ ev' = Ev0(Locals, "wait")
    /\ alien_list' = [i \in 1..Len(alien_list) |->
                         [alien_list[i] EXCEPT !.shoot_timer = @ + 1]]
    /\ UNCHANGED <<player, heart, score, goal, level, running,
                   is_game_over, game_over_text, music, cue_plays, idx, keys,
                   frame, spawn_hist, probe, menu, files>>

\* pause_menu, lines 412-439: an iteration of its loop with neither SPACE
\* nor a quit; it draws the menu and reads no local of game_loop.
PauseIdle ==
    /\ pc = "paused"
    /\ pc' = "paused"
    /\ ev' = Ev0(Locals, "wait")
    /\ UNCHANGED <<player, heart, alien_list, score, goal, level, running,
                   is_game_over, game_over_text, music, cue_plays, idx, keys,
                   frame, spawn_hist, probe, menu, files>>

\* pause_menu returns on SPACE; lines 864-874 end the controls.
Resume ==
    /\ pc = "paused"
    /\ \E rnd \in DrawsOf(Locals) :
         LET s == AfterPause([Locals EXCEPT !.music = TRUE], keys, rnd)
         IN  /\ Becomes([s EXCEPT !.ev.step = "resume"])
             /\ pc' = IF Len(s.alien_list) = 0 THEN "heart" ELSE "aliens"
    /\ keys' = NoKeys
    /\ UNCHANGED <<idx, frame, probe, menu, files>>

\* pause_menu: the QUIT event or the Quit button, then quit_game.
PauseQuit ==
    /\ pc = "paused"
    /\ pc' = "exited"
    /\ ev' = Ev0(Locals, "quit")
    /\ UNCHANGED <<player, heart, alien_list, score, goal, level, running,
                   is_game_over, game_over_text, music, cue_plays, idx, keys,
                   frame, spawn_hist, probe, menu, files>>

\* Lines 877-949: one iteration of the loop over the aliens.
AlienIter ==
    /\ pc = "aliens" /\ idx < Len(alien_list)
    /\ LET s == AlienBody(Locals, idx + 1)
       IN  /\ Becomes(s)
           /\ pc' = AfterAliens(s, idx + 1)
    /\ idx' = idx + 1
    /\ UNCHANGED <<keys, frame, probe, menu, files>>

\* Lines 951-981: the pickup, the end of the frame and the loop condition.
HeartStep ==
    /\ pc = "heart"
    /\ Becomes(HeartPart(Locals))
    /\ pc' = IF running THEN "top" ELSE "exited"
    /\ UNCHANGED <<idx, keys, frame, probe, menu, files>>

\* Variant: the bullets in flight are reset when the menu is entered.
EnterGameOverMenu_Resets ==
    /\ pc = "top" /\ is_game_over
    /\ \E quit \in BOOLEAN : running' = (running /\ ~quit)
    /\ pc' = "game_over_menu"
    /\ ev' = Ev0(Locals, "menu")
    /\ player' = [player EXCEPT !.bullet = reset_bullets(@)]
    /\ alien_list' = [i \in 1..Len(alien_list) |->
                         [alien_list[i] EXCEPT !.bullet = reset_bullets(@)]]
    /\ UNCHANGED <<heart, score, goal, level,
                   is_game_over, game_over_text, music, cue_plays, idx, keys,
                   frame, spawn_hist, probe, menu, files>>

\* Lines 839-853: a frame that starts with the game over.
EnterGameOverMenu ==
    /\ pc = "top" /\ is_game_over
    /\ \E quit \in BOOLEAN : running' = (running /\ ~quit)
    /\ pc' = "game_over_menu"
    /\ ev' = Ev0(Locals, "menu")
    /\ UNCHANGED <<player, heart, alien_list, score, goal, level,
                   is_game_over, game_over_text, music, cue_plays, idx, keys,
                   frame, spawn_hist, probe, menu, files>>

\* Variant: the score of the session that ended is kept.
play_game_KeepScore(s) == [NewSession EXCEPT !.score = s.score]

\* play_game: game_loop starts, with new locals (lines 810-835); s, the
\* locals of the session that ended, is not read.
play_game(s) == NewSession

\* game_over_menu: the Retry button calls play_game, a new game_loop.
Retry ==
    /\ pc = "game_over_menu"
    /\ Becomes(play_game(Locals))
    /\ pc' = "top"
    /\ idx' = 0
    /\ UNCHANGED <<keys, frame, probe, menu, files>>

\* game_over_menu: the Save Score button calls save_score_menu(score).
OpenSaveScore ==
    /\ pc = "game_over_menu"
    /\ pc' = "save_score_menu"
    /\ menu' = SaveScoreMenu(score)
    /\ UNCHANGED <<player, heart, alien_list, score, goal, level, running,
                   is_game_over, game_over_text, music, cue_plays, idx, keys,
                   frame, ev, spawn_hist, probe, files>>

\* Bounds of the menus: the records the files may hold, and the length
\* below which an input field still receives keys.
MaxRecords == 1

MaxTyped == 1

RECURSIVE Records(_, _)
Records(fs, paths) ==
    IF paths = {} THEN 0
    ELSE LET path == CHOOSE q \in paths : TRUE
         IN  Len(readlines(fs[path].text)) + Records(fs, paths \ {path})

\* The names typed in the menus.
Ada == <<"A", "d", "a">>

NameTokens == {Ada}

KeyDowns(token) ==
    [i \in 1..Len(token) |-> Event("KEYDOWN", "none", token[i])]

\* The events a frame of save_score_menu may get: none, a quit, a click
\* on a field or beside them, or the keys of a name or of a path of the
\* file system typed into the field that is active.
SaveScoreInputs(m, fs) ==
    { <<>>,
      <<Event("QUIT", "none", "")>>,
      <<Event("MOUSEBUTTONDOWN", "name", "")>>,
      <<Event("MOUSEBUTTONDOWN", "path", "")>>,
      <<Event("MOUSEBUTTONDOWN", "none", "")>> }
    \cup { KeyDowns(token) : token \in
              IF m.name_field.is_active /\ Len(m.name_field.text) < MaxTyped
              THEN NameTokens
              ELSE IF m.path_field.is_active
                      /\ Len(m.path_field.text) < MaxTyped
              THEN DOMAIN fs \ {DEFAULT_FILE}
              ELSE {} }

\* save_score_menu, lines 540-603: one iteration of its loop.
SaveScoreFrame ==
    /\ pc = "save_score_menu"
    /\ \E events \in SaveScoreInputs(menu, files),
          s \in BOOLEAN, b \in BOOLEAN :
         LET r == SaveScoreIteration(menu, files, events,
                                     [s |-> s, b |-> b])
         IN  /\ r.files # files => Records(files, DOMAIN files) < MaxRecords
             /\ files' = r.files
             /\ menu' = IF r.out = "stay" THEN r.menu ELSE NoMenu
             /\ pc' = IF r.out = "stay" THEN "save_score_menu"
                      ELSE IF r.out = "back" THEN "game_over_menu"
                      ELSE "exited"
    /\ UNCHANGED <<player, heart, alien_list, score, goal, level, running,
                   is_game_over, game_over_text, music, cue_plays, idx, keys,
                   frame, ev, spawn_hist, probe>>

\* game_over_menu: the QUIT event or the Quit button, then quit_game.
MenuQuit ==
    /\ pc = "game_over_menu"
    /\ pc' = "exited"
    /\ ev' = Ev0(Locals, "quit")
    /\ UNCHANGED <<player, heart, alien_list, score, goal, level, running,
                   is_game_over, game_over_text, music, cue_plays, idx, keys,
                   frame, spawn_hist, probe, menu, files>>

\* The sessions the exploration starts from.  Started: a session that has
\* reached score sc (even and below 25: level 1, all the aliens spawned so
\* far killed, the last kill having reset the player's bullet) with health
\* hp, at the top of the frame after the last kill.  Snapshot: that session
\* after c.age more frames, c.keys being pressed in the first of them and no
\* key in the others, the wave drawn being c.rnd.
Started(sc, hp) ==
    IF sc = 0 THEN NewSession
    ELSE [NewSession EXCEPT
            !.score = sc,
            !.player.health = hp,
            !.player.bullet = reset_bullets(@),
            !.ev = EvStart("new", hp, sc, 1, 10)]

Snapshot(c) ==
    IF c.age = 0 THEN Started(c.score, c.health)
    ELSE Idle(Frame(Started(c.score, c.health), c.keys, c.rnd),
              c.rnd, c.age - 1)

Shot == [NoKeys EXCEPT !.space = TRUE]

\* Two small aliens, in lanes 2 and 1: the first one is above the player.
SmallWave ==
    [t1 |-> 1, n1 |-> 2, r1 |-> 0, t2 |-> 1, n2 |-> 1, c2 |-> 1, r2 |-> 0]

\* Two large aliens, in lanes 1 and 3: the slowest wave, off the player.
LargeWave ==
    [t1 |-> 3, n1 |-> 1, r1 |-> 0, t2 |-> 3, n2 |-> 1, c2 |-> 2, r2 |-> 0]

\* Two medium aliens, in lanes 2 and 1: the first one is above the player
\* and its bottom edge stays near the pickup's.
MidWave ==
    [t1 |-> 2, n1 |-> 2, r1 |-> 0, t2 |-> 2, n2 |-> 1, c2 |-> 1, r2 |-> 0]

Start(sc, hp, k, rnd, age) ==
    [score |-> sc, health |-> hp, keys |-> k, rnd |-> rnd, age |-> age]

Starts ==
    { Start(0, 100, NoKeys, NoDraw, 0),        \* a session that starts
      Start(8, 100, NoKeys, SmallWave, 68),    \* a bullet about to hit
      Start(8, 10, NoKeys, SmallWave, 68),     \* ... with damage = health
      Start(8, 5, NoKeys, SmallWave, 68),      \* ... with damage > health
      Start(24, 100, NoKeys, SmallWave, 205),  \* a bullet about to leave
      Start(24, 100, NoKeys, SmallWave, 274),  \* aliens near the player
      Start(8, 100, Shot, LargeWave, 22),      \* the player's bullet leaves
      Start(24, 60, NoKeys, LargeWave, 725),   \* the pickup in reach
      Start(24, 90, NoKeys, LargeWave, 725),   \* ... healing over the cap
      Start(24, 100, NoKeys, LargeWave, 1098), \* the pickup about to leave
      Start(12, 60, NoKeys, LargeWave, 725),   \* the pickup in reach, the
                                               \* goal about to pass the score
      Start(8, 100, NoKeys, LargeWave, 1138),  \* an alien about to touch
                                               \* the danger line exactly
      Start(8, 100, NoKeys, SmallWave, 49),    \* aliens about to fire
      Start(8, 100, NoKeys, MidWave, 74),      \* ... their midpoint being
                                               \* above the screen
      Start(8, 100, NoKeys, MidWave, 78)       \* ... as soon as it is not
    }

\* Sessions in which the player has shot after the wave came in: the
\* session Start(score, health, NoKeys, rnd, age), then a frame with SPACE
\* pressed, then flight more frames with no key.
ShotStart(sc, hp, rnd, age, flight) ==
    [score |-> sc, health |-> hp, rnd |-> rnd, age |-> age,
     flight |-> flight]

ShotSnapshot(c) ==
    Idle(Frame(Snapshot(Start(c.score, c.health, NoKeys, c.rnd, c.age)),
               Shot, c.rnd),
         c.rnd, c.flight)

ShotStarts ==
    { ShotStart(8, 100, SmallWave, 139, 9),  \* the player's bullet about to
                                             \* hit the first of two aliens
      ShotStart(12, 100, MidWave, 42, 21),   \* ... an alien and the pickup
                                             \* being both in its way
      ShotStart(12, 50, [MidWave EXCEPT !.t1 = 3, !.t2 = 3], 203, 16),
                                             \* ... the pickup, and a large
                                             \* alien's bullet about to
                                             \* take the health left
      ShotStart(8, 100, SmallWave, 183, 5)   \* ... an alien whose own
                                             \* bullet is about to hit
    }

NoTxt == <<"n", "o", ".", "t", "x", "t">>

\* The files of the game: the default score file, empty, and a path at
\* which there is no file.
SmallWorld ==
    (DEFAULT_FILE :> [exists |-> TRUE, readable |-> TRUE, writable |-> TRUE,
                      text |-> <<>>])
    @@ (NoTxt :> NoFile)

Init ==
    /\ \/ \E c \in Starts : Holds(Snapshot(c))
       \/ \E c \in ShotStarts : Holds(ShotSnapshot(c))
    /\ pc = "top"
    /\ idx = 0
    /\ keys = NoKeys
    /\ frame = 0
    /\ probe = NoProbe
    /\ menu = NoMenu
    /\ files = SmallWorld

Next ==
    \/ PlayFrame
    \/ PauseFrame
    \/ PauseIdle
    \/ Resume
    \/ PauseQuit
    \/ AlienIter
    \/ HeartStep
    \/ EnterGameOverMenu
    \/ Retry
    \/ MenuQuit
    \/ OpenSaveScore
    \/ SaveScoreFrame

Spec == Init /\ [][Next]_vars

----------------------------------------------------------------------------
(* Direct calls of the pure functions                                      *)

GameUnused ==
    /\ Holds(NewSession)
    /\ pc = "probe" /\ idx = 0 /\ keys = NoKeys /\ frame = 0
    /\ menu = NoMenu

GameUntouched ==
    UNCHANGED <<player, heart, alien_list, score, goal, level, running,
                is_game_over, game_over_text, music, cue_plays, pc, idx, keys,
                frame, ev, spawn_hist, menu>>

\* get_rand_spawn called again and again on one location_list.
MaxCalls == 3

InitSpawn ==
    /\ GameUnused
    /\ files = SmallWorld
    /\ probe = [fn |-> "get_rand_spawn", calls |-> 0, rand_num |-> 0,
                entry |-> NewRandLocation, location_list |-> NewRandLocation]

CallGetRandSpawn ==
    /\ probe.fn = "get_rand_spawn" /\ probe.calls < MaxCalls
    /\ \E rand_num \in 1..3, r \in 0..RandGrain, choice \in 1..2 :
         LET entry == [probe.location_list EXCEPT !.depth = 0]
         IN  probe' = [fn |-> "get_rand_spawn", calls |-> probe.calls + 1,
                       rand_num |-> rand_num, entry |-> entry,
                       location_list |->
                           get_rand_spawn(entry, rand_num,
                                          [r |-> r, choice |-> choice])]
    /\ GameUntouched
    /\ UNCHANGED files

SpecSpawn == InitSpawn /\ [][CallGetRandSpawn]_vars

\* check_collisions called on a bullet and a rectangle.
ProbeBullets ==
    {[Bullet(1) EXCEPT !.is_fired = f, !.x_pos = x * PX, !.y_pos = y * PX] :
        f \in BOOLEAN, x \in {339, 340, 350, 440, 441},
        y \in {300, 389, 390, 400, 490, 491}}

ProbeRects ==
    {[x_pos |-> 340 * PX, y_pos |-> 390 * PX, width |-> 100 * PX,
      height |-> 100 * PX]}

InitCollide ==
    /\ GameUnused
    /\ files = SmallWorld
    /\ \E b \in ProbeBullets, rect \in ProbeRects :
         probe = [fn |-> "check_collisions", called |-> FALSE, bullet |-> b,
                  rect |-> rect, result |-> FALSE]

CallCheckCollisions ==
    /\ probe.fn = "check_collisions" /\ ~probe.called
    /\ probe' = [probe EXCEPT
                   !.called = TRUE,
                   !.result = check_collisions(probe.bullet, probe.rect.x_pos,
                                  probe.rect.y_pos, probe.rect.width,
                                  probe.rect.height)]
    /\ GameUntouched
    /\ UNCHANGED files

SpecCollide == InitCollide /\ [][CallCheckCollisions]_vars

----------------------------------------------------------------------------
(* Entities whose sprite does not load                                     *)

\* The sprite files tried: one that loads, one that does not exist, one
\* whose extension is not .png, .jpg or .jpeg.
Images == {"loads", "missing", "unsupported"}

\* Entity.check_imagePath: has_image, which is also whether the attribute
\* placeholder has been created (lines 94-97).
check_imagePath(image) == image = "loads"

EntityKinds == {"player", "alien", "heart"}

\* The entity game_loop, load_aliens (a small alien in lane 2) or get_heart
\* builds, for a sprite file in the state image: without the sprite x_pos
\* and y_pos stay the centre given to __init__ and there is no placeholder
\* (the field of the record is then not an attribute of the object).
EntityOf(kind, image) ==
    LET e == IF kind = "player" THEN NewSession.player
             ELSE IF kind = "alien" THEN NewAlien(1, 350 * PX)
             ELSE get_heart
    IN  IF check_imagePath(image) THEN e
        ELSE [e EXCEPT !.x_pos = 350 * PX,
                       !.y_pos = IF kind = "player" THEN 780 * PX
                                 ELSE -e.height]

\* move, shoot or draw called on the entity: the entity it leaves and the
\* exception it raises ("none": it returns).  The first read of
\* self.placeholder raises AttributeError when the sprite did not load:
\* in move after the position was advanced, in shoot at once.
CallEntity(kind, e, has_image, op, direction) ==
    IF op = "draw" THEN [entity |-> e, error |-> "none"]
    ELSE IF op = "shoot"
    THEN IF has_image THEN [entity |-> Spaceship_shoot(e), error |-> "none"]
         ELSE [entity |-> e, error |-> "AttributeError"]
    ELSE IF has_image
    THEN [entity |-> IF kind = "heart"
                     THEN Heart_move(e, direction, SCREEN_W, SCREEN_H)
                     ELSE Spaceship_move(e, direction, SCREEN_W, SCREEN_H),
          error |-> "none"]
    ELSE IF kind = "player"
    THEN LET x == e.x_pos + e.speed * direction
         IN  [entity |-> [e EXCEPT !.x_pos =
                              IF x <= 0 THEN 0
                              ELSE IF x + e.width >= SCREEN_W
                              THEN SCREEN_W - e.width
                              ELSE x],
              error |-> "AttributeError"]
    ELSE [entity |-> [e EXCEPT !.y_pos = @ + e.speed * direction],
          error |-> "AttributeError"]

MaxOps == 3

InitEntity ==
    /\ GameUnused
    /\ files = SmallWorld
    /\ \E kind \in EntityKinds, image \in Images :
         probe = [fn |-> "entity", kind |-> kind, image |-> image,
                  entity |-> EntityOf(kind, image), ops |-> 0,
                  op |-> "none", error |-> "none"]

\* The next call game_loop makes on the entity; an exception that is
\* raised is caught nowhere and ends the process.
CallEntityOp ==
    /\ probe.fn = "entity" /\ probe.error = "none" /\ probe.ops < MaxOps
    /\ \E op \in {"move", "shoot", "draw"}, direction \in {-1, 1} :
         /\ op = "shoot" => probe.kind # "heart"
         /\ probe.kind # "player" => direction = 1
         /\ LET r == CallEntity(probe.kind, probe.entity,
                                check_imagePath(probe.image), op, direction)
            IN  probe' = [probe EXCEPT !.entity = r.entity,
                                       !.ops = @ + 1,
                                       !.op = op,
                                       !.error = r.error]
    /\ GameUntouched
    /\ UNCHANGED files

SpecEntity == InitEntity /\ [][CallEntityOp]_vars

----------------------------------------------------------------------------
(* The start of a session: the sounds                                      *)

\* Lines 828-833: the sounds game_loop loads, in order, with the volume it
\* asks for in tenths (-1: the volume is left as it is).
SoundFiles ==
    <<[path |-> "raw/shoot.mp3", volume |-> 5],
      [path |-> "raw/hit-taken.mp3", volume |-> -1],
      [path |-> "raw/enemy-killed.mp3", volume |-> 8],
      [path |-> "raw/game-over.mp3", volume |-> 8],
      [path |-> "raw/health-pickup.mp3", volume |-> 5],
      [path |-> "raw/theme-song.mp3", volume |-> -1]>>

\* load_sound: pygame.mixer.Sound(path) raises when the file cannot be
\* loaded, and load_sound catches nothing; a sound that loads has volume
\* 10 (tenths) unless another is asked for.
load_sound(path, volume, missing) ==
    IF path \in missing
    THEN [error |-> "FileNotFoundError",
          sound |-> [path |-> path, volume |-> 0]]
    ELSE [error |-> "none",
          sound |-> [path |-> path,
                     volume |-> IF volume # -1 THEN volume ELSE 10]]

\* The process at the main menu, some of the sound files missing.
InitLoad ==
    /\ GameUnused
    /\ files = SmallWorld
    /\ \E missing \in SUBSET {SoundFiles[i].path : i \in 1..Len(SoundFiles)} :
         probe = [fn |-> "game_loop", at |-> "main_menu", missing |-> missing,
                  sounds |-> <<>>, error |-> "none"]

\* main_menu: the Play button calls play_game; game_loop builds the player
\* and the pickup (lines 810-826).
PressPlay ==
    /\ probe.fn = "game_loop" /\ probe.at = "main_menu"
    /\ probe' = [probe EXCEPT !.at = "loading"]
    /\ GameUntouched
    /\ UNCHANGED files

\* Lines 828-833: the next load_sound; its exception is caught neither by
\* game_loop nor by its callers (play_game, Button.draw, main_menu,
\* start_game): the process ends with a traceback.
LoadSound ==
    /\ probe.fn = "game_loop" /\ probe.at = "loading"
    /\ Len(probe.sounds) < Len(SoundFiles)
    /\ LET f == SoundFiles[Len(probe.sounds) + 1]
           r == load_sound(f.path, f.volume, probe.missing)
       IN  probe' = IF r.error = "none"
                    THEN [probe EXCEPT !.sounds = Append(@, r.sound)]
                    ELSE [probe EXCEPT !.at = "crashed", !.error = r.error]
    /\ GameUntouched
    /\ UNCHANGED files

\* Lines 835-837: the music starts and the loop of the frames is entered.
StartPlaying ==
    /\ probe.fn = "game_loop" /\ probe.at = "loading"
    /\ Len(probe.sounds) = Len(SoundFiles)
    /\ probe' = [probe EXCEPT !.at = "playing"]
    /\ GameUntouched
    /\ UNCHANGED files

\* quit_game, from the main menu or from the session.
QuitGame ==
    /\ probe.fn = "game_loop" /\ probe.at \in {"main_menu", "playing"}
    /\ probe' = [probe EXCEPT !.at = "exited"]
    /\ GameUntouched
    /\ UNCHANGED files

SpecLoad ==
    InitLoad /\ [][PressPlay \/ LoadSound \/ StartPlaying \/ QuitGame]_vars

----------------------------------------------------------------------------
(* Direct calls of write_scores and read_scores                            *)

\* The lines a score file may hold before the calls: two records, a line
\* without ": ", a line with two ": ", and a line whose score part is not
\* an integer.
LineKinds == {"good7", "good50", "nosep", "twosep", "nonint"}

Text(kind) ==
    IF kind = "good7"
    THEN <<"B", "o", " ", "-", " ", "S", "c", "o", "r", "e", ":", " ", "7">>
    ELSE IF kind = "good50"
    THEN <<"C", "y", " ", "-", " ", "S", "c", "o", "r", "e", ":", " ",
           "5", "0">>
    ELSE IF kind = "nosep" THEN <<"h", "e", "l", "l", "o">>
    ELSE IF kind = "twosep" THEN <<"a", ":", " ", "b", ":", " ", "3">>
    ELSE <<"D", "i", " ", "-", " ", "S", "c", "o", "r", "e", ":", " ", "x">>

RECURSIVE FileText(_)
FileText(kinds) ==
    IF kinds = <<>> THEN <<>>
    ELSE Text(Head(kinds)) \o <<"\n">> \o FileText(Tail(kinds))

MaxLines == 2

LineSeqs == UNION {[1..n -> LineKinds] : n \in 0..MaxLines}

ScoreTxt == <<"a", ".", "t", "x", "t">>

\* A name that holds the separator of the records.
ColonName == <<"A", ":", " ", "B">>

ProbeNames == {Ada, ColonName}

ProbeScores == {0, 42}

NotRead == [done |-> FALSE, res |-> FALSE, score_list |-> <<>>]

InitScores ==
    /\ GameUnused
    /\ \E kinds \in LineSeqs, name \in ProbeNames, sc \in ProbeScores,
          writable \in BOOLEAN :
         /\ files = (ScoreTxt :> [exists |-> TRUE, readable |-> TRUE,
                                  writable |-> writable,
                                  text |-> FileText(kinds)])
         /\ probe = [fn |-> "scores", path |-> ScoreTxt, kinds |-> kinds,
                     name |-> name, score |-> sc, wrote |-> "no",
                     read |-> NotRead]

\* write_scores(name, path, score)
CallWriteScores ==
    /\ probe.fn = "scores" /\ probe.wrote = "no"
    /\ LET w == write_scores(files, probe.name, probe.path, probe.score)
       IN  /\ files' = w.files
           /\ probe' = [probe EXCEPT
                          !.wrote = IF w.res THEN "ok" ELSE "failed",
                          !.read = NotRead]
    /\ GameUntouched

\* read_scores(score_list, path), score_list being empty
CallReadScores ==
    /\ probe.fn = "scores" /\ ~probe.read.done
    /\ LET r == read_scores(files, <<>>, probe.path)
       IN  probe' = [probe EXCEPT
                       !.read = [done |-> TRUE, res |-> r.res,
                                 score_list |-> r.score_list]]
    /\ GameUntouched
    /\ UNCHANGED files

SpecScores == InitScores /\ [][CallWriteScores \/ CallReadScores]_vars

----------------------------------------------------------------------------
(* game_logic.py: top_scores_menu, the list it shows                       *)

\* list.sort(key=lambda x: x[1], reverse=True): a stable sort, an entry
\* staying behind the entries of the same score that were before it.
InsertDesc(sorted, x) ==
    LET k == Cardinality({i \in 1..Len(sorted) : sorted[i].score >= x.score})
    IN  SubSeq(sorted, 1, k) \o <<x>> \o SubSeq(sorted, k + 1, Len(sorted))

RECURSIVE SortDesc(_)
SortDesc(list) ==
    IF list = <<>> THEN <<>>
    ELSE InsertDesc(SortDesc(SubSeq(list, 1, Len(list) - 1)), list[Len(list)])

\* ("___", 0)
Placeholder == [text |-> <<"_", "_", "_">>, score |-> 0]

\* Lines 648-650: the list is filled up to 5 entries.
RECURSIVE Pad(_)
Pad(list) == IF Len(list) < 5 THEN Pad(Append(list, Placeholder)) ELSE list

\* top_scores_menu, lines 630-656: the title, the records read (history)
\* and the five entries shown.
top_scores(fs, user_path, is_user_given) ==
    LET u == IF is_user_given THEN read_scores(fs, <<>>, user_path)
             ELSE [res |-> TRUE, score_list |-> <<>>]
        d == read_scores(fs, u.score_list, DEFAULT_FILE)
        l == Pad(IF d.res THEN SortDesc(d.score_list) ELSE d.score_list)
    IN  [text |-> IF ~d.res THEN "Error reading file!"
                  ELSE IF ~u.res THEN "Error reading user file!"
                  ELSE "Top 5 Scores",
         read |-> d.score_list,
         shown |-> SubSeq(l, 1, 5)]

MaxTopLines == 3

TopKinds == {"good7", "good50", "nonint"}

\* The states of a score file: no file, or one with up to MaxTopLines lines.
TopFiles ==
    {NoFile} \cup
    {[exists |-> TRUE, readable |-> TRUE, writable |-> TRUE,
      text |-> FileText(kinds)] :
        kinds \in UNION {[1..n -> TopKinds] : n \in 0..MaxTopLines}}

InitTop ==
    /\ GameUnused
    /\ \E d \in TopFiles, u \in TopFiles, is_user_given \in BOOLEAN :
         /\ files = (DEFAULT_FILE :> d) @@ (ScoreTxt :> u)
         /\ probe = [fn |-> "top_scores_menu", user_path |-> ScoreTxt,
                     is_user_given |-> is_user_given, called |-> FALSE,
                     text |-> "", read |-> <<>>, shown |-> <<>>]

\* top_scores_menu(user_path, True) or top_scores_menu()
CallTopScores ==
    /\ probe.fn = "top_scores_menu" /\ ~probe.called
    /\ LET r == top_scores(files, probe.user_path, probe.is_user_given)
       IN  probe' = [probe EXCEPT !.called = TRUE, !.text = r.text,
                                  !.read = r.read, !.shown = r.shown]
    /\ GameUntouched
    /\ UNCHANGED files

SpecTop == InitTop /\ [][CallTopScores]_vars

----------------------------------------------------------------------------
(* save_score_menu on a file system with paths of every kind               *)

ATxt == <<"a", ".", "t", "x", "t">>

BTxt == <<"b", ".", "T", "X", "T">>

CDat == <<"c", ".", "d", "a", "t">>

RoTxt == <<"r", "o", ".", "t", "x", "t">>

\* Files that exist and can be appended to (a.txt, b.TXT, c.dat), a file
\* that exists and cannot (ro.txt), a path with no file (no.txt), and the
\* default file, which can be appended to or not (default_writable).
RichWorld(default_writable) ==
    LET file == [exists |-> TRUE, readable |-> TRUE, writable |-> TRUE,
                 text |-> <<>>]
    IN  (DEFAULT_FILE :> [file EXCEPT !.writable = default_writable])
        @@ (ATxt :> file) @@ (BTxt :> file) @@ (CDat :> file)
        @@ (RoTxt :> [file EXCEPT !.writable = FALSE])
        @@ (NoTxt :> NoFile)

\* Sessions whose last frame ended the game: the player hit by a bullet of
\* at least its health.
InitSave ==
    /\ \E hp \in {5, 10} :
         Holds(Snapshot(Start(8, hp, NoKeys, SmallWave, 70)))
    /\ pc = "top"
    /\ idx = 0
    /\ keys = NoKeys
    /\ frame = 0
    /\ probe = NoProbe
    /\ menu = NoMenu
    /\ \E default_writable \in BOOLEAN : files = RichWorld(default_writable)

NextSave ==
    \/ EnterGameOverMenu
    \/ OpenSaveScore
    \/ SaveScoreFrame

SpecSave == InitSave /\ [][NextSave]_vars

----------------------------------------------------------------------------
(* The player's moves: sequences of frames with LEFT and RIGHT             *)

MaxMoves == 30

\* The snapshots of the LEFT and RIGHT keys.
MoveKeys == {k \in KeySets : ~k.p /\ ~k.space}

InitMove ==
    /\ GameUnused
    /\ files = SmallWorld
    /\ probe = [fn |-> "move", calls |-> 0, keys |-> NoKeys]

\* Lines 856-860 of a frame.
CallMove ==
    /\ probe.fn = "move" /\ probe.calls < MaxMoves
    /\ \E k \in MoveKeys :
         /\ player' = Controls(Locals, k).player
         /\ probe' = [probe EXCEPT !.calls = @ + 1, !.keys = k]
    /\ UNCHANGED <<heart, alien_list, score, goal, level, running,
                   is_game_over, game_over_text, music, cue_plays, pc, idx,
                   keys, frame, ev, spawn_hist, menu, files>>

SpecMove == InitMove /\ [][CallMove]_vars

----------------------------------------------------------------------------
(* A session in which the space bar is never pressed, no QUIT event comes  *)
(* and a pause always ends: game_loop from its start, frame after frame,   *)
(* for as long as it takes.  The keys are free (left, right, p) in the     *)
(* first MaxSteer frames and only p afterwards; the waves are those of     *)
(* one type at the lower end of their lanes, the second alien in the       *)
(* first of the lanes left to it.                                          *)

MaxSteer == 1

\* The draws a frame makes, out of these waves.
LiveDrawsOf(s) ==
    IF NeedsAliens(s)
    THEN {d \in Draws : /\ d.r1 = 0 /\ d.r2 = 0 /\ d.n2 = 1 /\ d.c2 = 1
                        /\ d.t2 = d.t1}
    ELSE {NoDraw}

\* The arrow keys a frame may find down when n frames have started.
SteerKeys(n) ==
    IF n < MaxSteer
    THEN {NoKeys, [NoKeys EXCEPT !.left = TRUE],
          [NoKeys EXCEPT !.right = TRUE]}
    ELSE {NoKeys}

InitLive ==
    /\ Holds(NewSession)
    /\ pc = "top"
    /\ idx = 0
    /\ keys = NoKeys
    /\ frame = 0
    /\ probe = NoProbe
    /\ menu = NoMenu
    /\ files = SmallWorld

\* Lines 838-870 with the p and space keys up and no QUIT event.
PlayFrameNoFire ==
    /\ pc = "top" /\ ~is_game_over
    /\ \E k \in SteerKeys(frame), rnd \in LiveDrawsOf(Locals) :
         LET s == AfterPause(Controls(Locals, k), k, rnd)
         IN  /\ Becomes(s)
             /\ pc' = IF Len(s.alien_list) = 0 THEN "heart" ELSE "aliens"
    /\ idx' = 0
    /\ keys' = NoKeys
    /\ frame' = Min(frame + 1, MaxFrames)
    /\ UNCHANGED <<probe, menu, files>>

\* Lines 838-866 with the p key down, the space key up and no QUIT event.
PauseFrameNoFire ==
    /\ pc = "top" /\ ~is_game_over
    /\ \E k \in SteerKeys(frame) :
         /\ Becomes([Controls(Locals, k) EXCEPT
                       !.music = FALSE, !.ev = Ev0(Locals, "pause")])
         /\ keys' = [k EXCEPT !.p = TRUE]
    /\ pc' = "paused"
    /\ idx' = 0
    /\ frame' = Min(frame + 1, MaxFrames)
    /\ UNCHANGED <<probe, menu, files>>

\* The pause ends on a p key press; the frame goes on from line 863.
ResumeNoFire ==
    /\ pc = "paused"
    /\ \E rnd \in LiveDrawsOf(Locals) :
         LET s == AfterPause([Locals EXCEPT !.music = TRUE], keys, rnd)
         IN  /\ Becomes([s EXCEPT !.ev.step = "resume"])
             /\ pc' = IF Len(s.alien_list) = 0 THEN "heart" ELSE "aliens"
    /\ keys' = NoKeys
    /\ UNCHANGED <<idx, frame, probe, menu, files>>

NextLive ==
    \/ PlayFrameNoFire
    \/ PauseFrameNoFire
    \/ PauseIdle
    \/ ResumeNoFire
    \/ AlienIter
    \/ HeartStep
    \/ EnterGameOverMenu
    \/ Retry

\* A step that moves the loop of game_loop on from where it is: a frame
\* starts or goes on after a pause (to the loop over the aliens, or to the
\* pickup when there is no alien), the loop over the aliens takes its next
\* element, the pickup step ends the frame.
LoopGoesOn ==
    \/ /\ pc = "top" /\ ~is_game_over
       /\ pc' \in {"aliens", "heart"} /\ idx' = 0
    \/ /\ pc = "paused"
       /\ pc' \in {"aliens", "heart"} /\ idx' = idx
    \/ /\ pc = "aliens"
       /\ pc' \in {"aliens", "heart"} /\ idx' = idx + 1
    \/ /\ pc = "heart"
       /\ pc' \in {"top", "exited"} /\ idx' = idx

\* game_loop is sequential code, so it does not stop between two steps:
\* from every position but a pause the next step is taken, and the claim
\* is about the sessions whose pauses end.
SpecLive ==
    /\ InitLive
    /\ [][NextLive]_vars
    /\ WF_<<pc, idx>>(LoopGoesOn)

----------------------------------------------------------------------------
(* Properties                                                              *)

\* C1: the player's health is always in 0..100; a hit by an alien's bullet
\* leaves max(0, health - damage), a collected pickup leaves
\* min(100, health + restore_amount), an alien reaching the player leaves 0,
\* and no other step changes the health.
C1_HealthInRange ==
    /\ player.health \in 0..100
    /\ ev.hit => player.health = Max(0, ev.health0 - ev.dmg)
    /\ ev.collect =>
         player.health = Min(100, ev.health0 + heart.restore_amount)
    /\ ev.reach => player.health = 0
    /\ ~ev.hit /\ ~ev.collect /\ ~ev.reach => player.health = ev.health0

\* C1, its case: a hit whose damage exceeds the health left.
C1_Witness == ev.hit /\ ev.dmg > ev.health0 /\ player.health = 0

\* C2: the score grows by exactly 1 in a step that kills an alien and is
\* unchanged by every other step; the level grows by exactly 1 when the
\* score reaches a multiple of 25, so that level = 1 + score \div 25.
C2_ScoreAndLevel ==
    /\ score = IF ev.kill THEN ev.score0 + 1 ELSE ev.score0
    /\ level = IF ev.kill /\ score % 25 = 0 THEN ev.level0 + 1 ELSE ev.level0
    /\ level = 1 + score \div 25

\* C2, its case: the kill that takes the score from 24 to 25.
C2_Witness == ev.kill /\ ev.score0 = 24 /\ score = 25 /\ level = 2

\* C3: a hit with damage >= health leaves health 0 and, in the same
\* iteration, the game-over flag with the text "YOU DIED" and the loop over
\* the aliens left; the rest of the frame keeps the flag and the text, and
\* the frame that starts with the flag set enters the game-over menu.
C3_YouDied ==
    /\ [](ev.hit /\ ev.dmg >= ev.health0 =>
            /\ player.health = 0
            /\ is_game_over
            /\ game_over_text = "YOU DIED"
            /\ pc = "heart")
    /\ [][is_game_over /\ pc = "heart" =>
            /\ is_game_over'
            /\ game_over_text' = game_over_text
            /\ pc' \in {"top", "exited"}]_vars
    /\ [][is_game_over /\ pc = "top" => pc' = "game_over_menu"]_vars

\* C3, its case: health 5, damage 10.
C3_Witness ==
    /\ ev.hit /\ ev.health0 = 5 /\ ev.dmg = 10
    /\ player.health = 0 /\ is_game_over /\ game_over_text = "YOU DIED"

\* C4: an alien whose advance takes its bottom edge to the danger line
\* (SCREEN_H - 120) or past it is killed and stays in the list, the game is
\* over with the text "ALIENS REACHED YOU", the health is 0, the score is
\* the one the step started with and the loop over the aliens is left.
C4_AliensReachedYou ==
    ev.step = "alien" /\ ev.advanced /\ ev.bottom >= SCREEN_H - 120 * PX =>
        /\ ev.reach
        /\ idx <= Len(alien_list) /\ alien_list[idx].is_killed
        /\ is_game_over
        /\ game_over_text = "ALIENS REACHED YOU"
        /\ player.health = 0
        /\ score = ev.score0
        /\ pc = "heart"

\* C4, its case: the bottom edge exactly on the danger line, the player
\* in full health.
C4_Witness ==
    /\ ev.reach /\ ev.bottom = SCREEN_H - 120 * PX /\ ev.health0 = 100
    /\ game_over_text = "ALIENS REACHED YOU" /\ player.health = 0

\* C5: in a session the game-over cue has been played once if the game is
\* over and never otherwise, and the music is off once the game is over.
C5_CueOnce ==
    /\ cue_plays = IF is_game_over THEN 1 ELSE 0
    /\ is_game_over => ~music

\* C5, its case: a session that died with another alien still to process.
C5_Witness ==
    /\ is_game_over /\ cue_plays = 1 /\ ~music /\ game_over_text = "YOU DIED"
    /\ pc = "heart" /\ idx < Len(alien_list)

\* C6: a call of get_rand_spawn leaves in previous_location the lane of
\* the spawn x it has set; when previous_location was not 0 on entry that
\* lane differs from it, whatever rand_num is; it recurses at most once.
C6_DifferentLane ==
    probe.calls > 0 =>
        /\ probe.location_list.previous_location \in 1..3
        /\ probe.location_list.previous_location =
               LaneOf(probe.location_list.spawn_location)
        /\ probe.entry.previous_location # 0 =>
               probe.location_list.previous_location #
                   probe.entry.previous_location
        /\ probe.location_list.depth <= 1

\* C6, its case: rand_num is the previous lane.
C6_Witness ==
    /\ probe.calls > 0
    /\ probe.entry.previous_location # 0
    /\ probe.rand_num = probe.entry.previous_location
    /\ probe.location_list.depth = 1

\* C7 as amended: the two aliens of one wave are in different lanes
\* (every alien being in one of the three lanes).
C7_WithinWave ==
    /\ \A i \in 1..Len(spawn_hist) : spawn_hist[i].lane \in 1..3
    /\ \A i \in 1..(Len(spawn_hist) - 1) :
         ~spawn_hist[i + 1].first =>
             spawn_hist[i].lane # spawn_hist[i + 1].lane

\* C7 as stated: no two aliens spawned one after the other share a lane,
\* the last of a wave and the first of the next included.
C7_Original ==
    \A i \in 1..(Len(spawn_hist) - 1) :
        spawn_hist[i].lane # spawn_hist[i + 1].lane

\* C7, its case: a wave that starts in the lane the wave before ended in.
C7_Witness ==
    \E i \in 1..(Len(spawn_hist) - 2) :
        /\ spawn_hist[i + 1].first
        /\ spawn_hist[i].lane = spawn_hist[i + 1].lane
        /\ spawn_hist[i + 1].lane # spawn_hist[i + 2].lane

BulletFlagOk(b) ==
    /\ b.is_fired => 0 < b.y_pos /\ b.y_pos < SCREEN_H
    /\ ~b.is_fired <=> b.last \in {"new", "out", "reset"}
    /\ b.last = "out" => b.y_pos <= 0 \/ b.y_pos >= SCREEN_H

\* C8: when a frame has ended, every bullet (the player's, each alien's)
\* is fired only with 0 < y < SCREEN_H, and is not fired exactly when it was
\* never fired, or its last advance took y to <= 0 or >= SCREEN_H, or it
\* was reset after a hit.
C8_FiredFlag ==
    pc \in {"top", "game_over_menu", "exited"} =>
        /\ BulletFlagOk(player.bullet)
        /\ \A i \in 1..Len(alien_list) : BulletFlagOk(alien_list[i].bullet)

\* C8, its case: an alien's bullet that has left by the bottom, the
\* player's bullet in flight.
C8_Witness ==
    /\ pc = "top"
    /\ player.bullet.is_fired
    /\ \E i \in 1..Len(alien_list) :
         /\ alien_list[i].bullet.last = "out"
         /\ alien_list[i].bullet.y_pos >= SCREEN_H

\* C9: check_collisions is true exactly when the bullet is fired and its
\* point (x_pos, y_pos) lies in the closed rectangle; a fired bullet at
\* (350, 400) hits the rectangle (340, 390, 100, 100), at y = 300 it does
\* not, and a bullet that is not fired never hits.
C9_PointInRect ==
    probe.fn = "check_collisions" /\ probe.called =>
        /\ probe.result <=>
               /\ probe.bullet.is_fired
               /\ probe.rect.x_pos <= probe.bullet.x_pos
               /\ probe.bullet.x_pos <= probe.rect.x_pos + probe.rect.width
               /\ probe.rect.y_pos <= probe.bullet.y_pos
               /\ probe.bullet.y_pos <= probe.rect.y_pos + probe.rect.height
        /\ /\ probe.bullet.is_fired
           /\ probe.bullet.x_pos = 350 * PX
           /\ probe.bullet.y_pos = 400 * PX
           => probe.result
        /\ probe.bullet.y_pos = 300 * PX => ~probe.result
        /\ ~probe.bullet.is_fired => ~probe.result

\* C9, its case: the bullet on the left edge of the rectangle.
C9_Witness ==
    /\ probe.fn = "check_collisions" /\ probe.called /\ probe.result
    /\ probe.bullet.x_pos = probe.rect.x_pos

\* C10 as amended: the goal is 10 when a session starts, grows by exactly
\* 10 in a step in which the player's bullet collects the pickup, and is
\* unchanged by every other step, the one in which the pickup becomes
\* claimed by leaving the screen included.
C10_GoalOnCollect ==
    /\ ev.step = "new" /\ score = 0 => goal = 10
    /\ goal = IF ev.collect THEN ev.goal0 + 10 ELSE ev.goal0
    /\ ev.expire => heart.is_claimed /\ ~ev.collect

\* C10 as stated: the goal grows by 10 each time the pickup becomes
\* claimed, collected or not.
C10_Original ==
    goal = IF ev.collect \/ ev.expire THEN ev.goal0 + 10 ELSE ev.goal0

\* C10, its case: the pickup is collected.
C10_Witness ==
    /\ ev.collect /\ heart.is_claimed /\ goal = ev.goal0 + 10
    /\ score >= ev.goal0
\* C11: the pickup changes (advance, claim, replacement) only in a pickup
\* step taken with score >= goal, a new session apart; a pickup step taken
\* with score < goal leaves the pickup, the player (health and bullet) and
\* the goal as they are, also when the player's bullet is in the pickup's
\* rectangle; a pickup is collected only with score >= goal.
C11_PickupGated ==
    [][/\ heart' # heart =>
            \/ pc = "heart" /\ score >= goal
            \/ pc = "game_over_menu" /\ pc' = "top"
       /\ pc = "heart" /\ score < goal =>
            UNCHANGED <<heart, player, goal, score>>
       /\ pc = "heart" /\ ev'.collect => score >= goal]_vars

\* C11, its case: a pickup step taken with score < goal while the player's
\* fired bullet is inside the rectangle of the pickup.
C11_Witness ==
    /\ ev.step = "heart" /\ score < goal /\ ~ev.collect
    /\ check_collisions(player.bullet, heart.x_pos, heart.y_pos,
                        heart.width, heart.height)

\* C12: while the pause menu is shown no step changes the player, the
\* enemies (positions, fire timers, bullets), the pickup, the score, the
\* level, the goal or the health; the step that leaves the menu on SPACE
\* continues the frame from exactly that state: it yields what the rest of
\* the frame (shot, player's bullet) yields on the state and the key
\* snapshot the menu was entered with, the enemies being those of that
\* state, followed by a new wave when the spawner runs.
C12_PauseFreezes ==
    [][pc = "paused" =>
         /\ pc' \in {"paused", "exited"} =>
                UNCHANGED <<player, heart, alien_list, score, goal, level>>
         /\ pc' \notin {"paused", "exited"} =>
                LET s == AfterPause(Locals, keys, NoDraw)
                    n == Len(alien_list)
                IN  /\ player' = s.player
                    /\ heart' = s.heart
                    /\ score' = s.score
                    /\ goal' = s.goal
                    /\ level' = s.level
                    /\ SubSeq(alien_list', 1, n) = alien_list
                    /\ Len(alien_list') = IF n < level THEN n + 2 ELSE n]_vars

\* C12, its case: the frame resumed after a pause taken with enemies on
\* the screen and an enemy's bullet in flight.
C12_Witness ==
    /\ ev.step = "resume"
    /\ \E i \in 1..Len(alien_list) : alien_list[i].bullet.is_fired
    /\ player.health = ev.health0 /\ score = ev.score0

\* C13 as stated: once a quit request has been received (running is False)
\* the next step of the process is its exit: no gameplay update is applied
\* and no menu is entered in between.
C13_QuitImmediate ==
    [][~running /\ pc # "exited" =>
         /\ pc' = "exited"
         /\ UNCHANGED <<player, heart, alien_list, score, goal, level>>]_vars

\* C14: the game-over menu is left only for the save-score menu, for a new
\* session (Retry) or by the exit of the process, and the save-score menu
\* only back to the game-over menu, the session that ended untouched, or
\* by the exit; Retry starts a session with score 0, goal 10, level 1,
\* health 100, no enemy, an unclaimed pickup, not over, whatever the
\* session that ended was.
C14_GameOverMenu ==
    [][/\ pc = "game_over_menu" =>
            /\ pc' \in {"game_over_menu", "save_score_menu", "top", "exited"}
            /\ pc' = "top" =>
                   /\ score' = 0 /\ goal' = 10 /\ level' = 1
                   /\ player'.health = 100
                   /\ alien_list' = <<>>
                   /\ ~heart'.is_claimed /\ heart'.y_pos < 0
                   /\ ~is_game_over' /\ running'
                   /\ ~player'.bullet.is_fired
       /\ pc = "save_score_menu" =>
            /\ pc' \in {"save_score_menu", "game_over_menu", "exited"}
            /\ UNCHANGED <<player, heart, alien_list, score, goal, level,
                           is_game_over, game_over_text>>]_vars

\* C14, its case: a session started by Retry after a score was saved.
C14_Witness ==
    /\ pc = "top" /\ frame > 0 /\ ev.step = "new"
    /\ score = 0 /\ goal = 10 /\ level = 1 /\ player.health = 100
    /\ alien_list = <<>> /\ ~is_game_over
    /\ files[DEFAULT_FILE].text # <<>>

\* C15 as stated: an entity whose sprite is missing or of an unsupported
\* format keeps working: every advance, fire and draw called on it
\* returns without an exception.
C15_PlaceholderWorks ==
    probe.fn = "entity" /\ probe.image # "loads" => probe.error = "none"

\* C16 as stated: a sound file that cannot be loaded when a session starts
\* does not end the process: the session is entered whenever Play is
\* chosen, and the process ends only by an explicit quit.
C16_AudioNotFatal ==
    probe.fn = "game_loop" => probe.at # "crashed"

\* C17 as stated: after write_scores(name, path, score) has succeeded on
\* a file of well-formed records, read_scores on the path succeeds and
\* returns an entry with that score and the text "<name> - Score: <score>".
C17_RoundTrip ==
    /\ probe.fn = "scores" /\ probe.wrote = "ok" /\ probe.read.done
    /\ \A i \in 1..Len(probe.kinds) : probe.kinds[i] \in {"good7", "good50"}
    => /\ probe.read.res
       /\ \E i \in 1..Len(probe.read.score_list) :
            /\ probe.read.score_list[i].score = probe.score
            /\ probe.read.score_list[i].text =
                   probe.name
                   \o <<" ", "-", " ", "S", "c", "o", "r", "e", ":", " ">>
                   \o StrOf(probe.score)

\* C18 as stated: read_scores on a file that holds malformed lines (no
\* ": ", two ": ", a score part that is not an integer) succeeds and
\* returns every well-formed record of the file, those before and those
\* after a malformed line.
C18_SkipsMalformed ==
    probe.fn = "scores" /\ probe.wrote = "no" /\ probe.read.done =>
        /\ probe.read.res
        /\ \A i \in 1..Len(probe.kinds) :
             probe.kinds[i] \in {"good7", "good50"} =>
                 \E j \in 1..Len(probe.read.score_list) :
                     /\ probe.read.score_list[j].text = Text(probe.kinds[i])
                     /\ probe.read.score_list[j].score =
                            IF probe.kinds[i] = "good7" THEN 7 ELSE 50

\* C19 as stated: the view shows exactly 5 entries, in descending order of
\* score: the 5 highest of the records read from the two files, the
\* placeholder ("___", 0) filling the list when fewer than 5 records were
\* read; also when one of the two reads fails.
C19_TopFive ==
    probe.fn = "top_scores_menu" /\ probe.called =>
        /\ Len(probe.shown) = 5
        /\ \A i \in 1..4 : probe.shown[i].score >= probe.shown[i + 1].score
        /\ \A i \in 1..5 :
             IF i <= Len(probe.read)
             THEN \E j \in 1..Len(probe.read) : probe.shown[i] = probe.read[j]
             ELSE probe.shown[i] = Placeholder
        /\ \A j \in 1..Len(probe.read) :
             probe.read[j].score >= probe.shown[5].score =>
                 \E i \in 1..5 : probe.shown[i] = probe.read[j]

\* C20: in a frame of the save-score menu in which a save is tried, when
\* the path is rejected (not the default path and either not ending in
\* .txt or with no file at it) the menu shows "Invalid path!", and when the
\* path is accepted and the file cannot be appended to it shows
\* "Score NOT saved!"; in both cases no file changes and the saved flag
\* stays false.  Otherwise the record is appended to the file at the path
\* and to no other.  A save that fails does not end the menu: with no QUIT
\* event and the b key up the loop goes on, so a later save with a valid
\* path succeeds.
C20_FailedSave ==
    [][pc = "save_score_menu" =>
        /\ pc' = "save_score_menu" /\ menu'.last # "none" =>
             IF /\ menu'.path # DEFAULT_FILE
                /\ \/ ~EndsWith(Lower(menu'.path), <<".", "t", "x", "t">>)
                   \/ ~FileAt(files, menu'.path).exists
             THEN /\ menu'.text = "Invalid path!"
                  /\ ~menu'.is_saved
                  /\ files' = files
             ELSE IF ~FileAt(files, menu'.path).writable
             THEN /\ menu'.text = "Score NOT saved!"
                  /\ ~menu'.is_saved
                  /\ files' = files
             ELSE /\ menu'.text = "Score saved!"
                  /\ menu'.is_saved
                  /\ files' = [files EXCEPT
                        ![menu'.path].exists = TRUE,
                        ![menu'.path].text =
                            @ \o RecordLine(menu'.name, score)]
        /\ pc' = "save_score_menu" /\ menu'.last = "none" => files' = files
        /\ \A events \in SaveScoreInputs(menu, files) :
             LET r == SaveScoreIteration(menu, files, events,
                                         [s |-> TRUE, b |-> FALSE])
             IN  /\ r.menu.last \in {"invalid", "failed"}
                 /\ \A i \in 1..Len(events) : events[i].type # "QUIT"
                 => /\ r.out = "stay"
                    /\ r.menu.running
                    /\ ~r.menu.is_saved]_vars

\* A save succeeds in a menu in which a save has failed.
C20_Witness ==
    /\ pc = "save_score_menu"
    /\ menu.rejected
    /\ menu.last = "saved"
    /\ menu.path # DEFAULT_FILE

\* C21 as stated: an enemy that has just been spawned has its top edge at
\* y = -height, and an advance with direction +1 adds exactly its speed to
\* y: a small enemy (100 x 100, speed 3) starts at y = -100 and is at
\* y = -97 after one advance.
C21_SpawnAtMinusHeight ==
    ev.step \in {"top", "resume"} /\ ev.spawned =>
        \A i \in {Len(alien_list) - 1, Len(alien_list)} :
            LET a == alien_list[i]
                m == Spaceship_move(a, 1, SCREEN_W, SCREEN_H)
            IN  /\ a.y_pos = -a.height
                /\ m.y_pos = a.y_pos + a.speed
                /\ a.height = 100 * PX =>
                     a.y_pos = -100 * PX /\ m.y_pos = -97 * PX

\* C22 as stated: in a Playing frame in which game over is not triggered,
\* every enemy that is in alien_list when the loop over the enemies starts
\* is processed exactly once: each iteration processes the enemy at the
\* iterator, and every enemy that is still to be processed is still ahead
\* of the iterator after the iteration.
C22_EveryEnemyOnce ==
    [][pc = "aliens" /\ ~is_game_over' =>
         /\ ev'.advanced
         /\ \A j \in (idx + 2)..Len(alien_list) :
              \E k \in (idx' + 1)..Len(alien_list') :
                  alien_list'[k] = alien_list[j]]_vars

\* C23 as stated: an enemy that becomes destroyed, by a bullet or by
\* crossing the danger line, is removed from alien_list in that same
\* frame: when a frame has ended (the pickup step is done) alien_list
\* holds no enemy with is_killed set.
C23_NoDestroyedLeft ==
    ev.step = "heart" => \A i \in 1..Len(alien_list) : ~alien_list[i].is_killed

\* C24: the step of a Playing frame that holds the spawner (the frame's
\* start, or the return of the pause menu) adds enemies exactly when
\* alien_list has fewer than level enemies before it; it then appends
\* exactly 2 enemies, each small, medium or large with that type's size,
\* speed, fire delay and bullet damage.  No other step adds an enemy.
C24_Spawner ==
    [][IF pc \in {"top", "paused"} /\ pc' \in {"aliens", "heart"}
       THEN IF Len(alien_list) < level
            THEN /\ Len(alien_list') = Len(alien_list) + 2
                 /\ SubSeq(alien_list', 1, Len(alien_list)) = alien_list
                 /\ \A i \in (Len(alien_list) + 1)..Len(alien_list') :
                      /\ LET a == alien_list'[i]
                         IN  <<a.width, a.height, a.speed, a.shoot_delay,
                               a.bullet.damage>> \in
                             { <<100 * PX, 100 * PX, 3 * PX, 50, 10>>,
                               <<120 * PX, 120 * PX, (3 * PX) \div 2,
                                 75, 25>>,
                               <<150 * PX, 150 * PX, (3 * PX) \div 4,
                                 100, 50>> }
                      /\ ~alien_list'[i].is_killed
                      /\ ~alien_list'[i].bullet.is_fired
                 /\ ev'.spawned
            ELSE alien_list' = alien_list /\ ~ev'.spawned
       ELSE Len(alien_list') <= Len(alien_list)]_vars

\* C24, its case: the spawner has run at level 2 with one enemy left.
C24_Witness ==
    /\ ev.step = "top" /\ ev.spawned
    /\ level = 2
    /\ Len(alien_list) = 3

\* C25: a call of get_rand_spawn sets spawn_location inside the sub-range
\* of the lane it chose (lane 1: 75..175, lane 2: 325..375, lane 3:
\* 525..625); the value differs from the one the record held on entry and
\* is never outside the three ranges.
C25_SpawnInLane ==
    probe.fn = "get_rand_spawn" /\ probe.calls > 0 =>
        LET x    == probe.location_list.spawn_location
            lane == probe.location_list.previous_location
        IN  /\ lane \in 1..3
            /\ lane = 1 => 75 * PX <= x /\ x <= 175 * PX
            /\ lane = 2 => 325 * PX <= x /\ x <= 375 * PX
            /\ lane = 3 => 525 * PX <= x /\ x <= 625 * PX
            /\ x # probe.entry.spawn_location

\* C25, its case: a call on a record that holds a spawn x already, which
\* draws the upper end of lane 3.
C25_Witness ==
    /\ probe.fn = "get_rand_spawn" /\ probe.calls > 1
    /\ probe.entry.spawn_location # 0
    /\ probe.location_list.spawn_location = 625 * PX

\* C26: an enemy never fires while its vertical midpoint is above the
\* playfield.  In an iteration of the loop over the enemies, the enemy at
\* the iterator (when it stays in the list) fires only if its bullet was
\* not in flight, its shoot_timer after the increment is at least its
\* shoot_delay and y_pos + height / 2 >= 0 after its advance; firing leaves
\* shoot_timer = 0.  (A bullet that was not in flight changes only by being
\* fired.)
C26_NoFireOffScreen ==
    [][pc = "aliens" /\ Len(alien_list') = Len(alien_list) =>
         LET a == alien_list[idx + 1]
             b == alien_list'[idx + 1]
         IN  /\ 2 * b.y_pos + b.height < 0 => b.bullet = a.bullet
             /\ b.bullet # a.bullet /\ ~a.bullet.is_fired =>
                  /\ a.shoot_timer + 1 >= a.shoot_delay
                  /\ 2 * b.y_pos + b.height >= 0
                  /\ b.shoot_timer = 0]_vars

\* C26, its case: a medium enemy that has just fired, after frames in
\* which its delay was over and its midpoint above the screen.
C26_Witness ==
    /\ ev.step = "alien" /\ idx > 0 /\ idx <= Len(alien_list) /\ frame > 1
    /\ alien_list[idx].shoot_delay = 75
    /\ alien_list[idx].bullet.is_fired
    /\ alien_list[idx].shoot_timer = 0
    /\ alien_list[idx].bullet.y_pos =
           alien_list[idx].placeholder.y + alien_list[idx].height
               + alien_list[idx].bullet.speed

\* C27 as amended: shoot_timer counts the iterations of the enemy loop
\* that processed the enemy while its bullet was not in flight, since its
\* last shot or since it was spawned.  Such an iteration adds exactly 1 to
\* it, or leaves it at 0 when the enemy fires in it; an iteration that
\* finds the bullet in flight, or in which the enemy reaches the player,
\* leaves it unchanged; no other step changes the timer of an enemy, and
\* the timer is 0 as long as the bullet is in flight.
C27_TimerWhileUnarmed ==
    /\ [][IF pc = "aliens"
          THEN IF Len(alien_list') = Len(alien_list)
               THEN LET a == alien_list[idx + 1]
                        b == alien_list'[idx + 1]
                    IN  /\ b.shoot_timer =
                              IF a.bullet.is_fired \/ ev'.reach
                              THEN a.shoot_timer
                              ELSE IF b.bullet # a.bullet THEN 0
                              ELSE a.shoot_timer + 1
                        /\ \A j \in 1..Len(alien_list) :
                             j # idx + 1 => alien_list'[j] = alien_list[j]
               ELSE alien_list' = SubSeq(alien_list, 1, idx)
                        \o SubSeq(alien_list, idx + 2, Len(alien_list))
          ELSE \A j \in 1..Min(Len(alien_list), Len(alien_list')) :
                   alien_list'[j].shoot_timer = alien_list[j].shoot_timer]_vars
    /\ [](\A j \in 1..Len(alien_list) :
             alien_list[j].bullet.is_fired => alien_list[j].shoot_timer = 0)

\* C27 as stated: the timer of an enemy that is processed grows by exactly
\* 1 in every frame, and is reset to 0 only when the enemy fires.
C27_Original ==
    [][pc = "aliens" /\ Len(alien_list') = Len(alien_list) /\ ~ev'.reach =>
         LET a == alien_list[idx + 1]
             b == alien_list'[idx + 1]
         IN  b.shoot_timer =
                 IF b.bullet # a.bullet /\ ~a.bullet.is_fired THEN 0
                 ELSE a.shoot_timer + 1]_vars

\* C27, its case: an enemy processed in the second frame of its bullet's
\* flight, its timer still at 0.
C27_Witness ==
    /\ ev.step = "alien" /\ idx > 0 /\ idx <= Len(alien_list) /\ frame > 1
    /\ alien_list[idx].bullet.is_fired
    /\ alien_list[idx].shoot_timer = 0
    /\ alien_list[idx].bullet.y_pos =
           alien_list[idx].placeholder.y + alien_list[idx].height
               - alien_list[idx].speed + 2 * alien_list[idx].bullet.speed

\* C28: after every sequence of LEFT / RIGHT inputs the player's x is in
\* 0 .. SCREEN_W - width, and the player's y is the one it was built with.
C28_PlayerInBounds ==
    /\ 0 <= player.x_pos
    /\ player.x_pos <= SCREEN_W - player.width
    /\ player.y_pos = 780 * PX - player.height \div 2
    /\ player.placeholder.y = player.y_pos

\* C28, its case: RIGHT pressed with the player at the right edge.
C28_Witness ==
    /\ probe.fn = "move" /\ probe.calls = MaxMoves
    /\ probe.keys.right /\ ~probe.keys.left
    /\ player.x_pos = SCREEN_W - player.width

\* C29: a bullet that hits is disarmed and moved to (SCREEN_W, SCREEN_H)
\* in the step of the hit.  A kill or a collected pickup needs the
\* player's bullet in flight and leaves it reset; a hit on the player
\* leaves the enemy's bullet reset; the steps that can hit never arm the
\* player's bullet, and one iteration kills at most one enemy.  Hence one
\* shot of the player registers at most one hit: it never kills two enemies
\* and never both kills an enemy and claims the pickup.
C29_OneHitPerShot ==
    [][/\ pc = "aliens" /\ ev'.kill =>
            /\ player.bullet.is_fired
            /\ score' = score + 1
            /\ Len(alien_list') = Len(alien_list) - 1
       /\ pc = "heart" /\ ev'.collect => player.bullet.is_fired
       /\ pc \in {"aliens", "heart"} /\ (ev'.kill \/ ev'.collect) =>
            /\ ~player'.bullet.is_fired
            /\ player'.bullet.x_pos = SCREEN_W
            /\ player'.bullet.y_pos = SCREEN_H
       /\ pc = "aliens" /\ ev'.hit /\ Len(alien_list') = Len(alien_list) =>
            /\ ~alien_list'[idx + 1].bullet.is_fired
            /\ alien_list'[idx + 1].bullet.x_pos = SCREEN_W
            /\ alien_list'[idx + 1].bullet.y_pos = SCREEN_H
       /\ pc \in {"aliens", "heart"} =>
            /\ player'.bullet.is_fired => player.bullet.is_fired
            /\ ~player.bullet.is_fired =>
                 score' = score /\ goal' = goal /\ ~ev'.kill /\ ~ev'.collect
            /\ score' <= score + 1]_vars

\* C29, its case: the player's bullet has killed an enemy at the point
\* (347.5, 25), which the pickup, not yet claimed, covers after its advance
\* of the same frame.
C29_Witness ==
    /\ pc = "heart" /\ ev.step = "alien" /\ ev.kill
    /\ score >= goal /\ ~heart.is_claimed
    /\ LET h == Heart_move(heart, 1, SCREEN_W, SCREEN_H)
           x == player.placeholder.x + player.width \div 2
                    - player.bullet.width \div 2
       IN  /\ h.y_pos <= 25 * PX /\ 25 * PX <= h.y_pos + h.height
           /\ h.x_pos <= x /\ x <= h.x_pos + h.width

\* C30: a ship fires only when its bullet is not in flight.  A bullet of
\* the player that is in flight when a frame starts is not put back at the
\* muzzle by the controls: it keeps its x and goes up by its speed.  A
\* bullet of an enemy that is in flight when the enemy is processed keeps
\* its x and goes down by its speed, or is reset by a hit on the player
\* (or is left as it is when the enemy reaches the player).  Each ship has
\* one Bullet, so it has at most one live shot.
C30_OneLiveShot ==
    [][/\ /\ pc \in {"top", "paused"} /\ pc' \in {"aliens", "heart"}
          /\ player.bullet.is_fired
          => /\ player'.bullet.x_pos = player.bullet.x_pos
             /\ player'.bullet.y_pos =
                    player.bullet.y_pos - player.bullet.speed
       /\ /\ pc = "aliens" /\ Len(alien_list') = Len(alien_list)
          /\ alien_list[idx + 1].bullet.is_fired
          => LET a == alien_list[idx + 1].bullet
                 b == alien_list'[idx + 1].bullet
             IN  \/ ev'.reach /\ b = a
                 \/ /\ ev'.hit /\ ~b.is_fired
                    /\ b.x_pos = SCREEN_W /\ b.y_pos = SCREEN_H
                 \/ /\ ~ev'.hit /\ ~ev'.reach
                    /\ b.x_pos = a.x_pos /\ b.y_pos = a.y_pos + a.speed]_vars

\* C30, its case: the second frame of the flight of the player's bullet,
\* the player having moved away from under it.
C30_Witness ==
    /\ ev.step = "top" /\ frame > 1
    /\ player.bullet.is_fired
    /\ player.bullet.y_pos = player.placeholder.y - 2 * player.bullet.speed
    /\ player.bullet.x_pos #
           player.placeholder.x + player.width \div 2
               - player.bullet.width \div 2

\* C31: a pickup that is not claimed and whose advance takes its top edge
\* to SCREEN_H + height or further becomes claimed, the player's health
\* and the goal staying as they are; a pickup becomes claimed in no other
\* way than this or by being collected.  A pickup step taken with
\* score >= goal on a claimed pickup replaces it by a new one, unclaimed,
\* at the spawn position above the screen; with score < goal the claimed
\* pickup stays.  The session holds one pickup.
C31_PickupLifeCycle ==
    [][pc = "heart" =>
         /\ /\ ~heart.is_claimed /\ score >= goal /\ ~ev'.collect
            /\ heart'.placeholder.y >= SCREEN_H + heart.height
            => /\ heart'.is_claimed
               /\ ev'.expire
               /\ player'.health = player.health
               /\ goal' = goal
         /\ ~heart.is_claimed /\ heart'.is_claimed =>
              \/ ev'.collect
              \/ heart'.placeholder.y >= SCREEN_H + heart.height
         /\ heart.is_claimed /\ score >= goal =>
              /\ ~heart'.is_claimed
              /\ heart'.y_pos = -(3 * heart.height) \div 2
              /\ heart'.x_pos = 350 * PX - heart.width \div 2
              /\ heart' = get_heart
         /\ heart.is_claimed /\ score < goal => heart' = heart]_vars

\* C31, its case: the pickup that left the screen has been replaced, the
\* goal being the one it had when the pickup left.
C31_Witness ==
    /\ ev.step = "heart" /\ ev.replaced /\ frame > 1
    /\ goal = 10 /\ score >= goal
    /\ ~heart.is_claimed /\ heart.y_pos < 0

\* C32 as stated: once the game-over flag is set the player's health is 0,
\* in the rest of the frame that set the flag and in every later state
\* (the health the game-over menu shows being the player's health).
C32_DeadAtGameOver == is_game_over => player.health = 0

\* C33: game over is absorbing for a session.  From the frame that starts
\* with the game-over flag set, every step leaves the player (health,
\* position, bullet), the enemies (list, positions, bullets), the pickup,
\* the score, the level, the goal, the flag and its text as they are: the
\* steps are the entry of the game-over menu, the save-score menu and its
\* return, and the exit of the process.  The only other step is Retry,
\* which starts a new session.
C33_GameOverAbsorbing ==
    [][is_game_over /\ pc \notin {"aliens", "heart"} =>
         \/ /\ UNCHANGED <<player, heart, alien_list, score, goal, level,
                           is_game_over, game_over_text>>
            /\ pc' \in {"game_over_menu", "save_score_menu", "exited"}
         \/ /\ pc = "game_over_menu" /\ pc' = "top"
            /\ ev'.step = "new" /\ ~is_game_over'
            /\ frame' = frame]_vars

\* C33, its case: back in the game-over menu after a score was saved, a
\* bullet of the player and a bullet of an enemy still in flight.
C33_Witness ==
    /\ pc = "game_over_menu" /\ is_game_over
    /\ files[DEFAULT_FILE].text # <<>>
    /\ player.bullet.is_fired
    /\ \E i \in 1..Len(alien_list) : alien_list[i].bullet.is_fired

\* C34: alien_list never holds more than level + 1 enemies.
C34_AtMostLevelPlusOne == Len(alien_list) <= level + 1

\* C34, its case: past level 1 the spawner has just run with level - 1
\* enemies left, and the list is at the limit.
C34_Witness ==
    /\ level >= 2 /\ Len(alien_list) = level + 1
    /\ ev.step = "top" /\ ev.spawned

\* C36: the player's health goes down only in an iteration of the enemy
\* loop over a live enemy of alien_list, either because that enemy crossed
\* the danger line or by the damage of that enemy's own bullet, which
\* overlaps the player; and an enemy killed by the player's bullet in an
\* iteration still deals its damage in that iteration if its bullet
\* overlaps the player.
C36_DamageOnlyWhenProcessed ==
    [][LET a == alien_list[idx + 1]
           a1 == Spaceship_move(a, 1, SCREEN_W, SCREEN_H)
           a2 == IF ~a1.bullet.is_fired THEN alien_shoot(a1) ELSE a1
           reaches ==
             check_collisions(move_bullets(a2.bullet, 1), player.x_pos,
                              player.y_pos, player.width, player.height)
       IN
       /\ player.health' < player.health =>
            /\ pc = "aliens" /\ idx < Len(alien_list)
            /\ ~alien_list[idx + 1].is_killed
            /\ \/ ev'.reach
               \/ /\ reaches
                  /\ player.health' =
                       TakeDamage(player.health,
                                  alien_list[idx + 1].bullet.damage)
       /\ ( /\ pc = "aliens" /\ idx < Len(alien_list)
            /\ ev'.step = "alien" /\ ev'.kill
            /\ reaches )
          => /\ player.health' =
                  TakeDamage(player.health,
                             alien_list[idx + 1].bullet.damage)
             /\ Len(alien_list') = Len(alien_list) - 1]_vars

\* C36, its case: the iteration that killed an enemy also took the damage
\* of that enemy's bullet, and the enemy is gone from the list.
C36_Witness ==
    /\ ev.step = "alien" /\ ev.kill /\ ev.hit
    /\ player.health = ev.health0 - ev.dmg /\ ev.dmg > 0
    /\ pc \in {"aliens", "heart"}

\* C37: every enemy of alien_list lies inside the horizontal playfield,
\* x_pos >= 0 and x_pos + width <= SCREEN_W, whatever lane and type were
\* drawn; and within a session the horizontal extents of the enemies never
\* change: a step leaves them as they are but for one removal at most and
\* for the enemies appended behind.
C37_SpawnInsidePlayfield ==
    /\ [](\A i \in 1..Len(alien_list) :
            /\ alien_list[i].x_pos >= 0
            /\ alien_list[i].x_pos + alien_list[i].width <= SCREEN_W
            /\ alien_list[i].placeholder.x = alien_list[i].x_pos)
    /\ [][ev'.step # "new" =>
            \E j \in 0..Len(alien_list) :
               LET kept == IF j = 0 THEN alien_list
                                    ELSE RemoveAt(alien_list, j)
                   Extent(a) == <<a.x_pos, a.placeholder.x, a.width>>
               IN  /\ Len(alien_list') >= Len(kept)
                   /\ \A i \in 1..Len(kept) :
                         Extent(alien_list'[i]) = Extent(kept[i])]_vars

\* C37, its case: a large enemy spawned at the left end of lane 1 and
\* another at the right end of lane 3 touch the two edges of the
\* playfield, and have moved down since.
C37_Witness ==
    /\ \E i \in 1..Len(alien_list) :
          /\ alien_list[i].width = 150 * PX /\ alien_list[i].x_pos = 0
          /\ alien_list[i].y_pos > -(alien_list[i].height * 3) \div 2
    /\ \E i \in 1..Len(alien_list) :
          /\ alien_list[i].x_pos + alien_list[i].width = SCREEN_W
          /\ alien_list[i].y_pos > -(alien_list[i].height * 3) \div 2

\* C38: goal is a positive multiple of 10 in every state, and no step of a
\* session lowers score, level or goal (a retry starts another session).
C38_Monotone ==
    /\ [](goal > 0 /\ goal % 10 = 0)
    /\ [][ev'.step # "new" =>
            score' >= score /\ level' >= level /\ goal' >= goal]_vars

\* C38, its case: in one frame a kill has raised the score and the pickup
\* has been collected, which moved the goal.
C38_Witness ==
    /\ ev.step = "heart" /\ ev.collect
    /\ goal = ev.goal0 + 10 /\ score > 12

\* C39: in a visit to the save-score menu a file changes only in a frame
\* that finds is_saved false, by one record, and that frame sets is_saved,
\* which stays set until the menu is left; and once is_saved is set no
\* frame writes, whatever its events and whether or not the s key is down.
C39_OneRecordPerVisit ==
    [][pc = "save_score_menu" =>
        /\ files' # files =>
             /\ ~menu.is_saved
             /\ pc' = "save_score_menu" => menu'.is_saved
             /\ Records(files', DOMAIN files) =
                  Records(files, DOMAIN files) + 1
        /\ menu.is_saved /\ pc' = "save_score_menu" => menu'.is_saved
        /\ menu.is_saved =>
             \A events \in SaveScoreInputs(menu, files),
                s \in BOOLEAN, b \in BOOLEAN :
                LET r == SaveScoreIteration(menu, files, events,
                                            [s |-> s, b |-> b])
                IN  r.files = files /\ r.menu.is_saved]_vars

\* C39, its case: the record has been written and a later frame of the
\* same visit has had the s key down, with no save tried.
C39_Witness ==
    /\ pc = "save_score_menu"
    /\ menu.is_saved /\ menu.asked /\ menu.last = "none"
    /\ Records(files, DOMAIN files) = 1

\* C35: in a session in which the player never fires, no QUIT event comes
\* and no pause lasts forever, a state in which the game is not over is
\* always followed by one in which it is.
C35_EventuallyGameOver == ~is_game_over ~> is_game_over

\* C35, its case: the session has ended at the danger line after the
\* player had been hit on the way.
C35_Witness ==
    /\ is_game_over /\ ev.reach
    /\ ev.health0 < 100 /\ ev.health0 > 0
    /\ score = 0

====
